---- MODULE Spec2Model ----
(***************************************************************************)
(* A model of the bot's decision-and-control loop:                         *)
(*   - InputController  (src/core/input_controller.py): the held-key      *)
(*     registry, its lock, the background hold tasks;                      *)
(*   - TargetManager and CombatSystem (src/combat/combat_system.py);       *)
(*   - BotEngine (src/core/bot_engine.py): lifecycle and emergency stop.   *)
(*                                                                         *)
(* Time is counted in whole seconds.  Scores are kept exact by scaling     *)
(* them by 8 (see CalculateTargetScore).                                   *)
(***************************************************************************)
EXTENDS Integers, Sequences, FiniteSets, TLC

(***************************************************************************)
(* Bounds and inputs                                                       *)
(***************************************************************************)
\* keys of VK_CODES used for holds (movement keys)
Keys == {"W", "S"}
\* the Python None argument of stop_hold
NoKey == "None"
\* a key name that is not in VK_CODES
BadKey == "?"
\* at most this many hold tasks are ever spawned in one run
MaxTasks == 2
\* threads that call the InputController API directly
ApiCallers == {"c1", "c2"}
\* the thread driving the engine's lifecycle controls, and the main loop
EngineThreads == {"gui", "main"}
AllThreads == ApiCallers \cup EngineThreads
TaskIds == 1..MaxTasks

VARIABLES
  held_keys,      \* InputController.held_keys : set of keys
  hold_threads,   \* InputController.hold_threads : key -> task id (0 = no entry)
  active_holds,   \* InputController.active_holds
  lockOwner,      \* InputController.lock (threading.Lock, not re-entrant)
  stack,          \* per thread: the call stack of InputController methods
  result,         \* per thread: what its last top-level call returned
  tasks,          \* per hold task: its key and its position in hold_loop
  nextTid,        \* next hold task to be spawned
  keyDown         \* the keyboard: which keys are physically down

inputVars == <<held_keys, hold_threads, active_holds, lockOwner, stack, result,
               tasks, nextTid, keyDown>>

VARIABLES
  clock,              \* the latest value time.time() has returned
  avoid_digimon,      \* CombatConfig.avoid_digimon, as a set of lower-case names
  current_target,     \* TargetManager.current_target
  sel,                \* the last update_targets call: the target before it,
                      \* the top score of the candidates, the best candidate,
                      \* whether the sort raised
  last_detected,      \* when the current target was last among the candidates
                      \* of a detection (kept for the claims; not in the code)
  emergency_retreat,  \* CombatConfig.emergency_retreat
  state,              \* CombatSystem.state
  last_state_change,  \* CombatSystem.last_state_change
  state_history,      \* CombatSystem.state_history: the transition log
  fsm                 \* the last _update_combat_state call: the state it found,
                      \* the rules that applied

VARIABLES
  last_attack_time,       \* CombatSystem.last_attack_time
  attack_sequence_count,  \* CombatSystem.attack_sequence_count
  last_combo_time,        \* ComboManager.last_combo_time
  combo_cooldowns,        \* ComboManager.combo_cooldowns, per name (0: no entry)
  combo_success_rate,     \* ComboManager.combo_success_rate, per name, in
                          \* hundredths (0: no entry)
  atk                     \* the last _handle_engaging call: what it found and
                          \* what it played

attackVars == <<last_attack_time, attack_sequence_count, last_combo_time,
                combo_cooldowns, combo_success_rate, atk>>

targetVars == <<clock, avoid_digimon, current_target, sel, last_detected>>
combatVars == <<emergency_retreat, state, last_state_change, state_history, fsm,
                attackVars>>

VARIABLES
  running,           \* BotEngine.running
  paused,            \* BotEngine.paused
  initialized,       \* BotEngine.initialized
  input_controller,  \* BotEngine.input_controller is not None
  combat_system,     \* BotEngine.combat_system is not None
  eng,               \* the lifecycle method the controlling thread is in
  main_thread,       \* BotEngine.main_thread: "none", "loop" or "ended"
  old_loops,         \* the _main_loop threads of earlier start() calls that
                     \* have not ended (BotEngine keeps no reference to them)
  estops             \* how many emergency_stop calls have returned

engineVars == <<running, paused, initialized, input_controller, combat_system,
                eng, main_thread, old_loops, estops>>

VARIABLES
  healing_items,          \* config_manager.healing_items: the configured items
  last_healing_attempt,   \* HealingSystem.last_healing_attempt, per vital
  last_healing_decision,  \* SmartHealingManager.last_healing_decision, per item
  healing_efficiency,     \* SmartHealingManager.healing_efficiency, per item
  heal                    \* the last healing decision: its inputs, the urgencies,
                          \* the actions it listed

VARIABLES
  healing_in_progress,  \* HealingSystem.healing_in_progress
  dispatching           \* per thread: the action it is inside
                        \* _execute_healing_action with, or NoDispatch

dispatchVars == <<healing_in_progress, dispatching>>

healVars ==
  <<healing_items, last_healing_attempt, last_healing_decision,
    healing_efficiency, heal, dispatchVars>>

VARIABLES
  use_memory,          \* config_manager.memory.use_memory
  mem,                 \* MemoryReader: connected, last_valid_stats
  current_game_state,  \* BotEngine.current_game_state
  cyc                  \* the main loop thread's position in its pass, the
                       \* snapshot it took, and what the pass has done so far

cycleVars == <<use_memory, mem, current_game_state, cyc>>

vars == <<inputVars, targetVars, combatVars, engineVars, healVars, cycleVars>>

\* what the InputController does not touch
nonInputVars == <<targetVars, combatVars, engineVars, healVars, cycleVars>>

(***************************************************************************)
(* InputController: the lock                                               *)
(***************************************************************************)
Free == [kind |-> "free", c |-> "-", t |-> 0]
ByThread(c) == [kind |-> "thread", c |-> c, t |-> 0]
ByTask(t) == [kind |-> "task", c |-> "-", t |-> t]

Frame(fn, key) ==
  [fn |-> fn, key |-> key, pc |-> "acquire", todo |-> {}, ret |-> "none"]

Depth(c) == Len(stack[c])
Top(c) == stack[c][Len(stack[c])]
InCall(c) == Len(stack[c]) > 0
\* the stack of c with its top frame replaced by f
WithTop(c, f) == [stack[c] EXCEPT ![Len(stack[c])] = f]
\* c's top frame becomes f and calls g
CallFrom(c, f, g) == Append(WithTop(c, f), g)

TaskAlive(t) == tasks[t].pc \notin {"unborn", "dead"}
LiveTasksOf(k) == {t \in TaskIds : TaskAlive(t) /\ tasks[t].key = k}

InputInit ==
  /\ held_keys = {}
  /\ hold_threads = [k \in Keys |-> 0]
  /\ active_holds = 0
  /\ lockOwner = Free
  /\ stack = [c \in AllThreads |-> <<>>]
  /\ result = [c \in AllThreads |-> "none"]
  /\ tasks = [t \in TaskIds |-> [key |-> NoKey, pc |-> "unborn"]]
  /\ nextTid = 1
  /\ keyDown = [k \in Keys |-> FALSE]

(***************************************************************************)
(* InputController: calls made by a thread c                               *)
(***************************************************************************)
\* start_hold(k): an invalid key returns False before the lock is touched
CallStartHold(c, k) ==
  /\ ~InCall(c)
  /\ nextTid <= MaxTasks
  /\ IF k \in Keys
       THEN /\ stack' = [stack EXCEPT ![c] = <<Frame("start_hold", k)>>]
            /\ result' = [result EXCEPT ![c] = "pending"]
       ELSE /\ result' = [result EXCEPT ![c] = "False"]
            /\ UNCHANGED stack
  /\ UNCHANGED <<held_keys, hold_threads, active_holds, lockOwner, tasks,
                 nextTid, keyDown>>
  /\ UNCHANGED nonInputVars

CallStopHold(c, k) ==
  /\ ~InCall(c)
  /\ stack' = [stack EXCEPT ![c] = <<Frame("stop_hold", k)>>]
  /\ result' = [result EXCEPT ![c] = "pending"]
  /\ UNCHANGED <<held_keys, hold_threads, active_holds, lockOwner, tasks,
                 nextTid, keyDown>>
  /\ UNCHANGED nonInputVars

CallStopAllInputs(c) ==
  /\ ~InCall(c)
  /\ stack' = [stack EXCEPT ![c] = <<Frame("stop_all_inputs", NoKey)>>]
  /\ result' = [result EXCEPT ![c] = "pending"]
  /\ UNCHANGED <<held_keys, hold_threads, active_holds, lockOwner, tasks,
                 nextTid, keyDown>>
  /\ UNCHANGED nonInputVars

\* `with self.lock:` at the head of start_hold, stop_hold and stop_all_inputs.
\* threading.Lock is not re-entrant: the owner itself waits like anyone else.
LockAcquire(c) ==
  /\ InCall(c)
  /\ Top(c).pc = "acquire"
  /\ lockOwner = Free
  /\ lockOwner' = ByThread(c)
  /\ stack' = [stack EXCEPT ![c] = WithTop(c, [Top(c) EXCEPT !.pc = "body"])]
  /\ UNCHANGED <<held_keys, hold_threads, active_holds, result, tasks,
                 nextTid, keyDown>>
  /\ UNCHANGED nonInputVars

\* start_hold, under the lock: `if key in self.held_keys: self.stop_hold(key)`
StartHoldBody(c) ==
  /\ InCall(c)
  /\ Top(c).fn = "start_hold"
  /\ Top(c).pc = "body"
  /\ IF Top(c).key \in held_keys
       THEN stack' = [stack EXCEPT ![c] =
                        CallFrom(c, [Top(c) EXCEPT !.pc = "register"],
                                 Frame("stop_hold", Top(c).key))]
       ELSE stack' = [stack EXCEPT ![c] =
                        WithTop(c, [Top(c) EXCEPT !.pc = "register"])]
  /\ UNCHANGED <<held_keys, hold_threads, active_holds, lockOwner, result,
                 tasks, nextTid, keyDown>>
  /\ UNCHANGED nonInputVars

\* start_hold, under the lock: register the key, spawn and start hold_loop
StartHoldRegister(c) ==
  /\ InCall(c)
  /\ Top(c).fn = "start_hold"
  /\ Top(c).pc = "register"
  /\ nextTid <= MaxTasks
  /\ held_keys' = held_keys \cup {Top(c).key}
  /\ active_holds' = active_holds + 1
  /\ tasks' = [tasks EXCEPT ![nextTid] = [key |-> Top(c).key, pc |-> "press"]]
  /\ hold_threads' = [hold_threads EXCEPT ![Top(c).key] = nextTid]
  /\ nextTid' = nextTid + 1
  /\ stack' = [stack EXCEPT ![c] =
                 WithTop(c, [Top(c) EXCEPT !.pc = "return", !.ret = "True"])]
  /\ UNCHANGED <<lockOwner, result, keyDown>>
  /\ UNCHANGED nonInputVars

\* stop_hold, under the lock
StopHoldBody(c) ==
  /\ InCall(c)
  /\ Top(c).fn = "stop_hold"
  /\ Top(c).pc = "body"
  /\ IF Top(c).key # NoKey
       THEN IF Top(c).key \in held_keys
              THEN /\ held_keys' = held_keys \ {Top(c).key}
                   /\ stack' = [stack EXCEPT ![c] =
                        WithTop(c, [Top(c) EXCEPT
                          !.pc = IF hold_threads[Top(c).key] # 0
                                   THEN "join" ELSE "return",
                          !.ret = "True"])]
              ELSE \* falls off the end of the function
                   /\ stack' = [stack EXCEPT ![c] =
                        WithTop(c, [Top(c) EXCEPT !.pc = "return", !.ret = "None"])]
                   /\ UNCHANGED held_keys
       ELSE \* keys_to_stop = list(self.held_keys)
            /\ stack' = [stack EXCEPT ![c] =
                 WithTop(c, [Top(c) EXCEPT !.pc = "loop", !.todo = held_keys])]
            /\ UNCHANGED held_keys
  /\ UNCHANGED <<hold_threads, active_holds, lockOwner, result, tasks,
                 nextTid, keyDown>>
  /\ UNCHANGED nonInputVars

\* thread.join(timeout=0.1): returns when the task has ended or after 0.1 s
StopHoldJoin(c) ==
  /\ InCall(c)
  /\ Top(c).fn = "stop_hold"
  /\ Top(c).pc = "join"
  /\ stack' = [stack EXCEPT ![c] = WithTop(c, [Top(c) EXCEPT !.pc = "return"])]
  /\ UNCHANGED <<held_keys, hold_threads, active_holds, lockOwner, result,
                 tasks, nextTid, keyDown>>
  /\ UNCHANGED nonInputVars

\* stop_hold(None): `for held_key in keys_to_stop: self.stop_hold(held_key)`
StopHoldLoop(c) ==
  /\ InCall(c)
  /\ Top(c).fn = "stop_hold"
  /\ Top(c).pc = "loop"
  /\ IF Top(c).todo = {}
       THEN stack' = [stack EXCEPT ![c] =
                        WithTop(c, [Top(c) EXCEPT !.pc = "return", !.ret = "True"])]
       ELSE \E hk \in Top(c).todo :
              stack' = [stack EXCEPT ![c] =
                          CallFrom(c, [Top(c) EXCEPT !.todo = @ \ {hk}],
                                   Frame("stop_hold", hk))]
  /\ UNCHANGED <<held_keys, hold_threads, active_holds, lockOwner, result,
                 tasks, nextTid, keyDown>>
  /\ UNCHANGED nonInputVars

\* stop_all_inputs, under the lock: first `self.stop_hold()`, and once that
\* has returned clear the registry and send key-up for every key of VK_CODES
\* (each key-up is in its own try/except: a failing one leaves that key as it was)
StopAllInputsStep(c) ==
  /\ InCall(c)
  /\ Top(c).fn = "stop_all_inputs"
  /\ Top(c).pc \in {"body", "clear"}
  /\ IF Top(c).pc = "body"
       THEN /\ stack' = [stack EXCEPT ![c] =
                           CallFrom(c, [Top(c) EXCEPT !.pc = "clear"],
                                    Frame("stop_hold", NoKey))]
            /\ UNCHANGED <<held_keys, hold_threads, active_holds, keyDown>>
       ELSE /\ held_keys' = {}
            /\ hold_threads' = [k \in Keys |-> 0]
            /\ active_holds' = 0
            /\ \E failed \in SUBSET Keys :
                 keyDown' = [k \in Keys |-> IF k \in failed THEN keyDown[k] ELSE FALSE]
            /\ stack' = [stack EXCEPT ![c] =
                           WithTop(c, [Top(c) EXCEPT !.pc = "return", !.ret = "None"])]
  /\ UNCHANGED <<lockOwner, result, tasks, nextTid>>
  /\ UNCHANGED nonInputVars

\* leaving the `with self.lock:` block and returning to the caller
Return(c) ==
  /\ InCall(c)
  /\ Top(c).pc = "return"
  /\ lockOwner' = Free
  /\ stack' = [stack EXCEPT ![c] = SubSeq(stack[c], 1, Len(stack[c]) - 1)]
  /\ result' = IF Len(stack[c]) = 1
                 THEN [result EXCEPT ![c] = Top(c).ret]
                 ELSE result
  /\ UNCHANGED <<held_keys, hold_threads, active_holds, tasks, nextTid, keyDown>>
  /\ UNCHANGED nonInputVars

\* every step of a thread inside the InputController
Proceed(c) ==
  \/ LockAcquire(c)
  \/ StartHoldBody(c)
  \/ StartHoldRegister(c)
  \/ StopHoldBody(c)
  \/ StopHoldJoin(c)
  \/ StopHoldLoop(c)
  \/ StopAllInputsStep(c)
  \/ Return(c)

(***************************************************************************)
(* InputController: hold_loop, the body of a hold task                     *)
(***************************************************************************)
\* the initial key-down; an exception goes to the except/finally blocks
TaskPress(t) ==
  /\ tasks[t].pc = "press"
  /\ \E ok \in BOOLEAN :
       IF ok
         THEN /\ keyDown' = [keyDown EXCEPT ![tasks[t].key] = TRUE]
              /\ tasks' = [tasks EXCEPT ![t].pc = "loop"]
         ELSE /\ tasks' = [tasks EXCEPT ![t].pc = "finally"]
              /\ UNCHANGED keyDown
  /\ UNCHANGED <<held_keys, hold_threads, active_holds, lockOwner, stack,
                 result, nextTid>>
  /\ UNCHANGED nonInputVars

\* `while key in self.held_keys: time.sleep(0.01)` read without the lock;
\* the loop is left when the key is found missing, then key-up is sent
TaskLoopExit(t) ==
  /\ tasks[t].pc = "loop"
  /\ tasks[t].key \notin held_keys
  /\ \E ok \in BOOLEAN :
       keyDown' = IF ok THEN [keyDown EXCEPT ![tasks[t].key] = FALSE] ELSE keyDown
  /\ tasks' = [tasks EXCEPT ![t].pc = "finally"]
  /\ UNCHANGED <<held_keys, hold_threads, active_holds, lockOwner, stack,
                 result, nextTid>>
  /\ UNCHANGED nonInputVars

\* finally: key-up once more (errors ignored), then wait for the lock
TaskFinally(t) ==
  /\ tasks[t].pc = "finally"
  /\ \E ok \in BOOLEAN :
       keyDown' = IF ok THEN [keyDown EXCEPT ![tasks[t].key] = FALSE] ELSE keyDown
  /\ tasks' = [tasks EXCEPT ![t].pc = "acquire"]
  /\ UNCHANGED <<held_keys, hold_threads, active_holds, lockOwner, stack,
                 result, nextTid>>
  /\ UNCHANGED nonInputVars

TaskAcquire(t) ==
  /\ tasks[t].pc = "acquire"
  /\ lockOwner = Free
  /\ lockOwner' = ByTask(t)
  /\ tasks' = [tasks EXCEPT ![t].pc = "cleanup"]
  /\ UNCHANGED <<held_keys, hold_threads, active_holds, stack, result,
                 nextTid, keyDown>>
  /\ UNCHANGED nonInputVars

\* finally, under the lock: discard the key, pop the thread entry, decrement
TaskCleanup(t) ==
  /\ tasks[t].pc = "cleanup"
  /\ held_keys' = held_keys \ {tasks[t].key}
  /\ hold_threads' = [hold_threads EXCEPT ![tasks[t].key] = 0]
  /\ active_holds' = IF active_holds > 0 THEN active_holds - 1 ELSE 0
  /\ lockOwner' = Free
  /\ tasks' = [tasks EXCEPT ![t].pc = "dead"]
  /\ UNCHANGED <<stack, result, nextTid, keyDown>>
  /\ UNCHANGED nonInputVars

TaskStep(t) ==
  \/ TaskPress(t)
  \/ TaskLoopExit(t)
  \/ TaskFinally(t)
  \/ TaskAcquire(t)
  \/ TaskCleanup(t)

\* the calls an API user can make
ApiCall(c) ==
  \/ \E k \in Keys \cup {BadKey} : CallStartHold(c, k)
  \/ \E k \in Keys \cup {NoKey} : CallStopHold(c, k)
  \/ CallStopAllInputs(c)

(***************************************************************************)
(* TargetManager                                                           *)
(***************************************************************************)
\* the run is followed up to this time (seconds since construction)
MaxTime == 5
\* the clock advances by at most this much between two ticks
MaxStep == 2
\* at most this many entities in one detection
MaxEntities == 2

target_lock_duration == 3
target_lost_timeout == 2
max_distance == 400
\* min_confidence = 0.4; confidences are counted in twentieths
min_confidence == 8

None == [entity_type |-> "none"]

EntityTypes == {"boss_nameplate", "red_hp_bar", "enemy_nameplate"}
Positions == {<<100, 100>>, <<300, 100>>}
Distances == {50, 150, 350, 450}
\* 0.25 and 0.5
Confidences == {5, 10}

\* entities as the detector reports them (DetectedEntity)
Entities ==
  [entity_type : EntityTypes, pos : Positions,
   distance_from_center : Distances, confidence : Confidences]

\* the entities followed call after call: each type near and far at one
\* place, one entity at another place
Tracked ==
  {e \in Entities :
     \/ /\ e.confidence = 10
        /\ e.distance_from_center \in {50, 350}
        /\ e.pos = <<100, 100>>
     \/ /\ e.confidence = 10
        /\ e.distance_from_center = 50
        /\ e.pos = <<300, 100>>
        /\ e.entity_type = "enemy_nameplate"}

\* the entities followed for the filter: those, one entity out of range and
\* one of low confidence
Universe ==
  Tracked \cup
  {e \in Entities :
     /\ e.entity_type = "enemy_nameplate"
     /\ e.pos = <<100, 100>>
     /\ \/ e.distance_from_center = 450 /\ e.confidence = 10
        \/ e.distance_from_center = 50 /\ e.confidence = 5}

\* the sets of at most n entities of U
RECURSIVE SetsUpTo(_, _)
SetsUpTo(U, n) ==
  IF n = 0
    THEN {{}}
    ELSE LET S == SetsUpTo(U, n - 1)
         IN  S \cup {d \cup {e} : d \in S, e \in U}

\* one detection: the order of the list and repeated entities change nothing
\* in update_targets, so a detection is a set
Detections(U) == SetsUpTo(U, MaxEntities)

\* the detections followed for the target manager
TrackedDetections == Detections(Tracked)
UniverseDetections == Detections(Universe)

\* the substring test `avoid in t.entity_type.lower()`, for the names used here
IsSubstring(a, name) ==
  \/ a = name
  \/ a = "nameplate" /\ name \in {"boss_nameplate", "enemy_nameplate"}
  \/ a = "enemy" /\ name = "enemy_nameplate"
  \/ a = "boss" /\ name = "boss_nameplate"

\* str.lower(), for the names used here
Lower(name) ==
  CASE name = "Enemy" -> "enemy"
    [] OTHER -> name

\* the entries of config.avoid_digimon as the user typed them
AvoidConfigs == {{}, {"Enemy"}}

\* avoid_list: the entries of the configured list, lowercased
AvoidList(avoid) == {Lower(name) : name \in avoid}

Abs(n) == IF n < 0 THEN -n ELSE n

GetTargetPriority(entity_type) ==
  CASE entity_type = "boss_nameplate" -> 1
    [] entity_type = "red_hp_bar" -> 2
    [] entity_type = "enemy_nameplate" -> 3
    [] entity_type = "yellow_nameplate" -> 4
    [] entity_type = "friendly_nameplate" -> 10
    [] OTHER -> 5

\* Target(...) as built in update_targets
MakeTarget(e, t) ==
  [entity_type |-> e.entity_type, x |-> e.pos[1], y |-> e.pos[2],
   distance |-> e.distance_from_center, confidence |-> e.confidence,
   priority |-> GetTargetPriority(e.entity_type), last_seen |-> t]

\* as FilterTargets, with the avoid entries compared as typed
FilterTargetsAsTyped(targets, avoid) ==
  {t \in targets :
     /\ ~(\E a \in avoid : IsSubstring(a, Lower(t.entity_type)))
     /\ t.distance <= max_distance
     /\ t.confidence >= min_confidence}

FilterTargets(targets, avoid) ==
  {t \in targets :
     /\ ~(\E a \in AvoidList(avoid) : IsSubstring(a, Lower(t.entity_type)))
     /\ t.distance <= max_distance
     /\ t.confidence >= min_confidence}

\* 8 * _calculate_target_score(target), an integer:
\*   8*(100 - 10*priority) + 8*(400 - d)/400*50 + 8*30*confidence + 8*25
CalculateTargetScore(target, cur) ==
  8 * (100 - target.priority * 10)
  + (max_distance - target.distance)
  + 12 * target.confidence
  + (IF /\ cur # None
        /\ target.entity_type = cur.entity_type
        /\ Abs(target.x - cur.x) < 50
        /\ Abs(target.y - cur.y) < 50
       THEN 200 ELSE 0)

\* scored_targets.sort(reverse=True) compares (score, target) tuples: two
\* different targets with the same score are compared with `<`, which the
\* Target dataclass does not define, so the sort raises TypeError
SortRaises(targets, cur) ==
  \E a, b \in targets :
    a # b /\ CalculateTargetScore(a, cur) = CalculateTargetScore(b, cur)

SelectBestTarget(targets, cur) ==
  IF targets = {}
    THEN None
    ELSE CHOOSE b \in targets :
           \A o \in targets :
             CalculateTargetScore(o, cur) <= CalculateTargetScore(b, cur)

\* as _should_switch_target, with `- 1` left out of the priority comparison
ShouldSwitchTargetAnyBetterPriority(cur, new, now) ==
  IF cur = None
    THEN TRUE
    ELSE IF now - cur.last_seen < target_lock_duration
      THEN new.priority < cur.priority
      ELSE 5 * CalculateTargetScore(new, cur) > 6 * CalculateTargetScore(cur, cur)

\* as _should_switch_target, with the lock test left out
ShouldSwitchTargetNoLock(cur, new, now) ==
  IF cur = None
    THEN TRUE
    ELSE 5 * CalculateTargetScore(new, cur) > 6 * CalculateTargetScore(cur, cur)

\* _should_switch_target; `new_score > current_score * 1.2` is 5*new > 6*cur
ShouldSwitchTarget(cur, new, now) ==
  IF cur = None
    THEN TRUE
    ELSE IF now - cur.last_seen < target_lock_duration
      THEN new.priority < cur.priority - 1
      ELSE 5 * CalculateTargetScore(new, cur) > 6 * CalculateTargetScore(cur, cur)

\* the candidates of update_targets(detected_entities) at time now
Candidates(ents, avoid, now) ==
  FilterTargets({MakeTarget(e, now) : e \in ents}, avoid)

\* the highest score among the targets (0 when there is none)
TopScore(targets, cur) ==
  IF targets = {}
    THEN 0
    ELSE CalculateTargetScore(SelectBestTarget(targets, cur), cur)

\* what update_targets(detected_entities) computes at time now before it
\* decides: whether the sort raises, and the best target of the sorted list
Selection(cur, ents, avoid, now) ==
  LET filtered == Candidates(ents, avoid, now)
      raised == SortRaises(filtered, cur)
  IN  [called |-> TRUE,
       prev |-> cur,
       top |-> TopScore(filtered, cur),
       raised |-> raised,
       best |-> IF raised THEN None ELSE SelectBestTarget(filtered, cur)]

\* the decision of update_targets on what it computed: the result is the new
\* current target; when the sort raises, the call is left with nothing changed
DecideTarget(cur, computed, now) ==
  IF computed.raised
    THEN cur
    ELSE IF computed.best # None
      THEN IF cur = None \/ ShouldSwitchTarget(cur, computed.best, now)
             THEN computed.best
             ELSE cur
      ELSE IF cur # None /\ now - cur.last_seen > target_lost_timeout
             THEN None
             ELSE cur

\* update_targets(detected_entities) at time now (the readings of the clock
\* made within one call are taken to be equal)
UpdateTargets(cur, ents, avoid, now) ==
  DecideTarget(cur, Selection(cur, ents, avoid, now), now)

\* the entity a target was made from is again among the candidates
SameEntity(a, b) ==
  /\ a # None
  /\ b # None
  /\ [a EXCEPT !.last_seen = 0] = [b EXCEPT !.last_seen = 0]

\* when the current target `new` left by a call at time now was last
\* detected
LastDetected(new, ents, avoid, now, before) ==
  IF \E c \in Candidates(ents, avoid, now) : SameEntity(c, new)
    THEN now
    ELSE before

\* TargetManager.__init__, with the configured avoid list
TargetInit(avoids) ==
  /\ clock = 0
  /\ avoid_digimon \in avoids
  /\ current_target = None
  /\ sel = [called |-> FALSE, prev |-> None, top |-> 0, raised |-> FALSE,
            best |-> None]
  /\ last_detected = 0

\* the readings of the clock a tick can make after time `from`
ClockReads(from) ==
  {t \in 0..MaxTime : from <= t /\ t <= from + MaxStep}

\* one update_targets call, on any detection, at any later time
UpdateTargetsCall ==
  /\ UNCHANGED avoid_digimon
  /\ UNCHANGED <<inputVars, combatVars, engineVars, healVars, cycleVars>>
  /\ \E now \in ClockReads(clock) : \E ents \in TrackedDetections :
       /\ sel' = Selection(current_target, ents, avoid_digimon, now)
       /\ current_target' = DecideTarget(current_target, sel', now)
       /\ last_detected' = LastDetected(current_target', ents, avoid_digimon, now,
                                        last_detected)
       /\ clock' = now

(***************************************************************************)
(* CombatSystem: the state machine                                         *)
(***************************************************************************)
CombatStates == {"idle", "seeking", "engaging", "retreating", "cooldown"}

retreat_hp_threshold == 15
engage_distance == 100
disengage_distance == 200
cooldown_seconds == 2

\* player_stats.get('hp_pct', 100)
HpValues == {10, 20, 100}

\* the detections used when the whole combat update is followed
CombatUniverse ==
  {e \in Entities :
     /\ e.pos = <<100, 100>>
     /\ e.confidence = 10
     /\ \/ e.entity_type = "enemy_nameplate" /\ e.distance_from_center \in {50, 150, 350}
        \/ e.entity_type = "boss_nameplate" /\ e.distance_from_center = 50}

CombatDetections == Detections(CombatUniverse)

\* as ShouldRetreat, whatever the emergency_retreat setting
ShouldRetreatWhateverSetting(hp, emr) == hp <= retreat_hp_threshold

ShouldRetreat(hp, emr) == emr /\ hp <= retreat_hp_threshold

\* as IsSafe, without the buffer
IsSafeNoBuffer(hp) == hp > retreat_hp_threshold

IsSafe(hp) == hp > retreat_hp_threshold + 10

\* as CooldownOver, over from the second second on
CooldownOverAtTwo(now, since) == now - since >= cooldown_seconds

\* current_time - self.last_state_change > 2.0
CooldownOver(now, since) == now - since > cooldown_seconds

\* the branches of _update_combat_state, one rule each; every state also has
\* the rule of falling through all its branches
RuleNames ==
  {"idle_to_seeking", "idle_stay",
   "seeking_to_idle", "seeking_to_engaging", "seeking_stay",
   "engaging_to_cooldown", "engaging_to_seeking", "engaging_to_retreating",
   "engaging_stay",
   "retreating_to_cooldown", "retreating_stay",
   "cooldown_to_idle", "cooldown_stay"}

RuleFrom(r) ==
  CASE r \in {"idle_to_seeking", "idle_stay"} -> "idle"
    [] r \in {"seeking_to_idle", "seeking_to_engaging", "seeking_stay"} -> "seeking"
    [] r \in {"engaging_to_cooldown", "engaging_to_seeking",
              "engaging_to_retreating", "engaging_stay"} -> "engaging"
    [] r \in {"retreating_to_cooldown", "retreating_stay"} -> "retreating"
    [] r \in {"cooldown_to_idle", "cooldown_stay"} -> "cooldown"

\* as RuleTo, with the retreat ending in idle
RuleToRetreatEndsIdle(r) ==
  CASE r = "idle_to_seeking" -> "seeking"
    [] r = "seeking_to_idle" -> "idle"
    [] r = "seeking_to_engaging" -> "engaging"
    [] r = "engaging_to_cooldown" -> "cooldown"
    [] r = "engaging_to_seeking" -> "seeking"
    [] r = "engaging_to_retreating" -> "retreating"
    [] r = "retreating_to_cooldown" -> "idle"
    [] r = "cooldown_to_idle" -> "idle"
    [] OTHER -> RuleFrom(r)

RuleTo(r) ==
  CASE r = "idle_to_seeking" -> "seeking"
    [] r = "seeking_to_idle" -> "idle"
    [] r = "seeking_to_engaging" -> "engaging"
    [] r = "engaging_to_cooldown" -> "cooldown"
    [] r = "engaging_to_seeking" -> "seeking"
    [] r = "engaging_to_retreating" -> "retreating"
    [] r = "retreating_to_cooldown" -> "cooldown"
    [] r = "cooldown_to_idle" -> "idle"
    [] OTHER -> RuleFrom(r)

\* the same branches, with the retreat branch of the engaging state taken
\* whenever the retreat condition holds, whatever the branches before it
RuleGuardRetreatUnguarded(r, tgt, hp, emr, now, since) ==
  CASE r = "idle_to_seeking" -> tgt # None
    [] r = "idle_stay" -> tgt = None
    [] r = "seeking_to_idle" -> tgt = None
    [] r = "seeking_to_engaging" -> tgt # None /\ tgt.distance < engage_distance
    [] r = "seeking_stay" -> tgt # None /\ ~(tgt.distance < engage_distance)
    [] r = "engaging_to_cooldown" -> tgt = None
    [] r = "engaging_to_seeking" -> tgt # None /\ tgt.distance > disengage_distance
    [] r = "engaging_to_retreating" -> ShouldRetreat(hp, emr)
    [] r = "engaging_stay" ->
         /\ tgt # None
         /\ ~(tgt.distance > disengage_distance)
         /\ ~ShouldRetreat(hp, emr)
    [] r = "retreating_to_cooldown" -> IsSafe(hp)
    [] r = "retreating_stay" -> ~IsSafe(hp)
    [] r = "cooldown_to_idle" -> CooldownOver(now, since)
    [] r = "cooldown_stay" -> ~CooldownOver(now, since)

\* when the branch of rule r is taken: its own condition, and (elif) the
\* conditions of the branches before it false
RuleGuard(r, tgt, hp, emr, now, since) ==
  CASE r = "idle_to_seeking" -> tgt # None
    [] r = "idle_stay" -> tgt = None
    [] r = "seeking_to_idle" -> tgt = None
    [] r = "seeking_to_engaging" -> tgt # None /\ tgt.distance < engage_distance
    [] r = "seeking_stay" -> tgt # None /\ ~(tgt.distance < engage_distance)
    [] r = "engaging_to_cooldown" -> tgt = None
    [] r = "engaging_to_seeking" -> tgt # None /\ tgt.distance > disengage_distance
    [] r = "engaging_to_retreating" ->
         /\ tgt # None
         /\ ~(tgt.distance > disengage_distance)
         /\ ShouldRetreat(hp, emr)
    [] r = "engaging_stay" ->
         /\ tgt # None
         /\ ~(tgt.distance > disengage_distance)
         /\ ~ShouldRetreat(hp, emr)
    [] r = "retreating_to_cooldown" -> IsSafe(hp)
    [] r = "retreating_stay" -> ~IsSafe(hp)
    [] r = "cooldown_to_idle" -> CooldownOver(now, since)
    [] r = "cooldown_stay" -> ~CooldownOver(now, since)

ApplicableRules(s, tgt, hp, emr, now, since) ==
  {r \in RuleNames : RuleFrom(r) = s /\ RuleGuard(r, tgt, hp, emr, now, since)}

\* the transition log keeps this many entries
history_limit == 20

\* the transition log where a specification does not follow it
NotFollowed == <<[old |-> "none", new |-> "none", time |-> 0]>>

\* "Log state changes": one entry appended when the state has changed, the
\* oldest entry popped when the log then holds more than history_limit
LogStateChange(history, old, new, now) ==
  IF history = NotFollowed \/ old = new
    THEN history
    ELSE LET longer == Append(history, [old |-> old, new |-> new, time |-> now])
         IN  IF Len(longer) > history_limit THEN Tail(longer) ELSE longer

(***************************************************************************)
(* CombatSystem: attacks and combos.  The times of this part are counted   *)
(* in half seconds, the success rates in hundredths.                       *)
(***************************************************************************)
\* CombatConfig.attack_cooldown: 2.5 s
attack_cooldown == 5
\* the global combo cooldown of get_available_combo: 5.0 s
combo_global_cooldown == 10
\* `self.attack_sequence_count > 2`
combo_min_attacks == 2
\* the bounds and the steps of the adaptive success rate
rate_max == 100
rate_min == 10
rate_up == 2
rate_down == 5

\* the keys of VK_CODES used here
VkCodes == {"TAB", "1", "4", "F1", "F2", "F4", "S"}
\* CombatConfig.attack_key: the default, and a key VK_CODES does not have
AttackKeys == {"1", "Q"}

ComboStep(type, key) == [type |-> type, key |-> key]

\* COMBAT_COMBOS: the two combos followed (the rolls of the other three are
\* taken to fail); a cooldown of 8 s and of 15 s
ComboKeys == {"basic_assault", "defensive_counter"}
COMBAT_COMBOS ==
  [k \in ComboKeys |->
     IF k = "basic_assault"
       THEN [name |-> "Basic Assault",
             sequence |-> <<ComboStep("tab", "TAB"), ComboStep("attack", "-"),
                            ComboStep("special", "F1")>>,
             cooldown |-> 16, success_rate |-> 90]
       ELSE [name |-> "Defensive Counter",
             sequence |-> <<ComboStep("movement", "S"), ComboStep("special", "F4"),
                            ComboStep("attack", "-")>>,
             cooldown |-> 30, success_rate |-> 75]]

ComboTitles == {COMBAT_COMBOS[k].name : k \in ComboKeys}
\* the names the dictionaries of the ComboManager are read and written under
ComboNames == ComboKeys \cup ComboTitles

NoCombo == [name |-> "none"]

\* the score of _select_situational_combo
ComboScore(k, player_hp) ==
  COMBAT_COMBOS[k].success_rate
  + (IF player_hp > 70 THEN 0
     ELSE IF player_hp < 40
       THEN (IF k = "defensive_counter" THEN 40 ELSE -20)
       ELSE 0)

\* _select_situational_combo: {'name': combo_name, **combo_data}, in which
\* the 'name' of combo_data replaces combo_name
SelectSituationalCombo(available, player_hp) ==
  LET best == CHOOSE b \in available :
                \A o \in available : ComboScore(o, player_hp) <= ComboScore(b, player_hp)
  IN  COMBAT_COMBOS[best]

\* get_available_combo() at time now; `rolls` are the combos whose roll
\* random.random() < success_rate passes
GetAvailableCombo(now, rolls, player_hp, globally, cooldowns) ==
  IF now - globally < combo_global_cooldown
    THEN NoCombo
    ELSE LET available == {k \in ComboKeys :
                             /\ now - cooldowns[k] >= COMBAT_COMBOS[k].cooldown
                             /\ k \in rolls}
         IN  IF available = {} THEN NoCombo
             ELSE SelectSituationalCombo(available, player_hp)

\* what can go wrong at one step of a sequence of n steps: its tap or hold
\* returns False (the key is not in VK_CODES, or keybd_event raises inside
\* tap), or the step raises
NoTrouble == [kind |-> "none", at |-> 0]
Troubles(n) ==
  {NoTrouble} \cup [kind : {"returns_false", "raises"}, at : 1..n]

\* the key a step of a combo presses
StepKey(step, attack_key) ==
  IF step.type = "attack" THEN attack_key ELSE step.key

\* _execute_combo_sequence(sequence): the steps whose tap or hold was called
\* and returned, those of them whose input was dispatched, and the result
ExecuteComboSequence(sequence, attack_key, trouble) ==
  LET n == Len(sequence)
      played == 1..(IF trouble.kind = "raises" THEN trouble.at - 1 ELSE n)
      sent == {i \in played :
                 /\ StepKey(sequence[i], attack_key) \in VkCodes
                 /\ ~(trouble.kind = "returns_false" /\ trouble.at = i)}
  IN  [played |-> played,
       sent |-> sent,
       result |-> trouble.kind # "raises"]

\* as UpdateSuccessRate, without the cap and the floor
UpdateSuccessRateUnbounded(rate, success) ==
  IF success THEN rate + rate_up ELSE rate - rate_down

\* execute_combo, the update of the success rate
UpdateSuccessRate(rate, success) ==
  IF success
    THEN (IF rate + rate_up < rate_max THEN rate + rate_up ELSE rate_max)
    ELSE (IF rate - rate_down > rate_min THEN rate - rate_down ELSE rate_min)

\* as ShouldCombo, with two attacks enough
ShouldComboAfterTwo(enabled, roll, count) ==
  enabled /\ roll /\ count > combo_min_attacks - 1

\* should_combo of _handle_engaging; `roll` is random.random() < combo_chance
ShouldCombo(enabled, roll, count) ==
  enabled /\ roll /\ count > combo_min_attacks

\* the attack bookkeeping after `count` normal attack sequences, the last at
\* time `last`, with the success rates `rates`.  atk holds, of the last
\* _handle_engaging call: whether the cooldown test ended it, the combo it
\* played, whether a step of it failed to dispatch its input and whether a
\* step was played after that one, what execute_combo returned and the rate
\* it started from, how the normal attack sequence ended, whether a key was
\* pressed, and, over the ticks, the time of the last tick that pressed a key
\* (before this tick, and now) and the normal attack sequences completed
\* since the last successful combo (before this tick, and now)
AttackAt(count, last, rates) ==
  /\ last_attack_time = last
  /\ attack_sequence_count = count
  /\ last_combo_time = 0
  /\ combo_cooldowns = [n \in ComboNames |-> 0]
  /\ combo_success_rate \in rates
  /\ atk = [ran |-> FALSE, gated |-> FALSE, combo |-> "none",
            missed |-> FALSE, after |-> FALSE, reported |-> "none",
            rate_before |-> 0, attack |-> "none", pressed |-> FALSE,
            prev_press |-> last, last_press |-> last,
            since_before |-> count, since |-> count]

\* no combo was executed yet
NoRates == [n \in ComboNames |-> 0]

\* CombatSystem.__init__ and ComboManager.__init__: the attack bookkeeping
AttackInit == AttackAt(0, 0, {NoRates})

\* the combat system with its state machine in state s since time `since`,
\* the transition log being `history`
CombatAt(emrs, s, since, history) ==
  /\ emergency_retreat \in emrs
  /\ state = s
  /\ last_state_change = since
  /\ state_history = history
  /\ fsm = [ran |-> FALSE, from |-> s, rules |-> {}, changes |-> 0]
  /\ AttackInit

\* CombatSystem.__init__
CombatInit(emrs) == CombatAt(emrs, "idle", 0, NotFollowed)

\* _update_combat_state(current_time, game_state, current_target)
UpdateCombatState(now, hp, tgt) ==
  LET rules == ApplicableRules(state, tgt, hp, emergency_retreat, now,
                               last_state_change)
  IN  /\ \E r \in rules :
           /\ state' = RuleTo(r)
           /\ last_state_change' = IF RuleTo(r) # state THEN now ELSE last_state_change
           /\ state_history' = LogStateChange(state_history, state, RuleTo(r), now)
      /\ fsm' = [ran |-> TRUE, from |-> state, rules |-> rules,
                 changes |-> IF state_history' = state_history
                               THEN fsm.changes ELSE fsm.changes + 1]
      /\ UNCHANGED <<emergency_retreat, attackVars>>

\* the clock as a bot cycle reads it: current_time at the head of the cycle,
\* and again in update_targets, after the healing update has run
CycleReads(from) ==
  {r \in ClockReads(from) \X (0..MaxTime) : r[2] \in {r[1], r[1] + 1}}

\* CombatSystem.update(current_time, game_state), on a detection drawn from dets,
\* a player hp drawn from hps and clock readings <<current_time, now>> drawn
\* from reads: update_targets, then the state machine.  An exception (the sort's TypeError) ends the update
\* there.  The combat actions that follow press and release keys with the
\* blocking tap and hold, which leave the registry of holds alone.
CombatSystemUpdate(dets, hps, reads) ==
  /\ UNCHANGED <<avoid_digimon, sel>>
  /\ \E r \in reads : \E ents \in dets :
       LET computed == Selection(current_target, ents, avoid_digimon, r[2])
       IN  /\ current_target' = DecideTarget(current_target, computed, r[2])
           /\ last_detected' = LastDetected(current_target', ents, avoid_digimon,
                                            r[2], last_detected)
           /\ clock' = r[2]
           /\ \E hp \in hps :
                IF computed.raised
                  THEN UNCHANGED combatVars
                  ELSE UpdateCombatState(r[1], hp, current_target')

(***************************************************************************)
(* HealingSystem: the healing decision.  Percentages are whole numbers;    *)
(* the times of this part are counted in loop periods of 50 ms.            *)
(***************************************************************************)
\* HealingUrgency
NONE == 0
LOW == 1
MEDIUM == 2
HIGH == 3
EMERGENCY == 4

\* SmartHealingManager.base_config
emergency_threshold == 15
panic_threshold == 25
comfort_threshold == 60
overheal_protection == 5
\* prediction_window = 3.0 s, counted in half seconds
prediction_window == 6

\* HealingConfig: 1.5 s and 2.5 s, in periods of 50 ms
normal_heal_delay == 30
combat_heal_delay == 50
\* HealingItem.cooldown: 2.0 s, in periods of 50 ms
item_cooldown == 40

Vitals == {"hp", "ds"}

Max(a, b) == IF a >= b THEN a ELSE b
Min(a, b) == IF a <= b THEN a ELSE b

\* the hp and ds percentages a decision is made on
HpPcts == {10, 15, 16, 25, 26, 30, 31, 55, 60, 61, 80, 100}
DsPcts == {10, 35, 80}
\* every percentage the urgency is compared over
AllPcts == HpPcts \cup DsPcts \cup {0, 11, 40, 41, 75, 76, 81}
\* the slopes of the health history, in percent per second
HpTrends == {-10, -2, 0}
DsTrends == {-10, 0}
\* the times of the decisions followed, and the times of earlier heals
\* (0: never)
HealTimes == {100, 120, 140}
EarlierTimes == {0, 90}

\* the thresholds of _calculate_urgency for a vital
EmergencyThreshold(stat_type) ==
  IF stat_type = "ds" THEN Max(10, emergency_threshold - 5) ELSE emergency_threshold
PanicThreshold(stat_type) ==
  IF stat_type = "ds" THEN Max(15, panic_threshold - 10) ELSE panic_threshold
ComfortThreshold(stat_type) ==
  IF stat_type = "ds" THEN Max(40, comfort_threshold - 20) ELSE comfort_threshold

\* as _calculate_urgency, with the emergency test made after the forecast tests
CalculateUrgencyForecastFirst(current_pct, predicted_pct, stat_type, trend, in_combat) ==
  IF predicted_pct <= EmergencyThreshold(stat_type) THEN HIGH
  ELSE IF current_pct <= EmergencyThreshold(stat_type) THEN EMERGENCY
  ELSE IF current_pct <= PanicThreshold(stat_type) THEN HIGH
  ELSE IF predicted_pct <= PanicThreshold(stat_type) THEN MEDIUM
  ELSE IF trend < -5 /\ in_combat
    THEN IF current_pct <= ComfortThreshold(stat_type) THEN MEDIUM ELSE LOW
  ELSE IF current_pct <= ComfortThreshold(stat_type) THEN LOW
  ELSE NONE

\* as _calculate_urgency, with the two outcomes of the decline test exchanged
CalculateUrgencyDeclineSwapped(current_pct, predicted_pct, stat_type, trend, in_combat) ==
  IF current_pct <= EmergencyThreshold(stat_type) THEN EMERGENCY
  ELSE IF predicted_pct <= EmergencyThreshold(stat_type) THEN HIGH
  ELSE IF current_pct <= PanicThreshold(stat_type) THEN HIGH
  ELSE IF predicted_pct <= PanicThreshold(stat_type) THEN MEDIUM
  ELSE IF trend < -5 /\ in_combat
    THEN IF current_pct <= ComfortThreshold(stat_type) THEN LOW ELSE MEDIUM
  ELSE IF current_pct <= ComfortThreshold(stat_type) THEN LOW
  ELSE NONE

\* _calculate_urgency
CalculateUrgency(current_pct, predicted_pct, stat_type, trend, in_combat) ==
  IF current_pct <= EmergencyThreshold(stat_type) THEN EMERGENCY
  ELSE IF predicted_pct <= EmergencyThreshold(stat_type) THEN HIGH
  ELSE IF current_pct <= PanicThreshold(stat_type) THEN HIGH
  ELSE IF predicted_pct <= PanicThreshold(stat_type) THEN MEDIUM
  ELSE IF trend < -5 /\ in_combat
    THEN IF current_pct <= ComfortThreshold(stat_type) THEN MEDIUM ELSE LOW
  ELSE IF current_pct <= ComfortThreshold(stat_type) THEN LOW
  ELSE NONE

\* predict_health_in_seconds(prediction_time) for one vital: the window is
\* 3 s, 4.5 s in combat; the result is clamped to 0..100
PredictHealth(current_pct, trend, in_combat) ==
  LET window == IF in_combat THEN (prediction_window * 3) \div 2
                             ELSE prediction_window
  IN  Max(0, Min(100, current_pct + (trend * window) \div 2))

HpItemNames == {"Recovery Floppy", "Hi-Recovery Disk", "Mega Recovery HD"}
DsItemNames == {"Energy Floppy", "Hi-Energy Disk", "Mega Energy HD"}
ItemNames == HpItemNames \cup DsItemNames

\* the default items of ConfigManager: the three Recovery items are
\* configured with item_type 'hp', the three Energy items with 'ds'
ItemConfig(name, key, threshold, priority, enabled) ==
  [name |-> name, key |-> key, enabled |-> enabled, threshold |-> threshold,
   item_type |-> IF name \in HpItemNames THEN "hp" ELSE "ds",
   priority |-> priority, cooldown |-> item_cooldown]

\* item_stat_type of _get_available_items: 'recovery' in the lowercased name
\* makes an hp item, any other name a ds item
ItemStatType(name) == IF name \in HpItemNames THEN "hp" ELSE "ds"

\* the default items, those of `on` enabled
ItemsEnabled(on) ==
  {ItemConfig("Recovery Floppy", "1", 70, 3, "Recovery Floppy" \in on),
   ItemConfig("Hi-Recovery Disk", "2", 50, 2, "Hi-Recovery Disk" \in on),
   ItemConfig("Mega Recovery HD", "3", 25, 1, "Mega Recovery HD" \in on),
   ItemConfig("Energy Floppy", "4", 70, 3, "Energy Floppy" \in on),
   ItemConfig("Hi-Energy Disk", "5", 50, 2, "Hi-Energy Disk" \in on),
   ItemConfig("Mega Energy HD", "6", 25, 1, "Mega Energy HD" \in on)}

DefaultItems == ItemsEnabled(ItemNames)

\* the configurations followed: the default one, and one with a single item
\* enabled for each vital
HealConfigs ==
  {DefaultItems, ItemsEnabled({"Mega Recovery HD", "Mega Energy HD"})}

NoItem == [name |-> "none"]

\* _get_available_items(stat_type) at time now
GetAvailableItems(items, decisions, stat_type, now) ==
  {[name |-> i.name, key |-> i.key, threshold |-> i.threshold,
    item_type |-> ItemStatType(i.name), priority |-> i.priority,
    cooldown |-> i.cooldown, last_used |-> decisions[i.name],
    success_count |-> 0, failure_count |-> 0] :
     i \in {c \in items :
              /\ c.enabled
              /\ ItemStatType(c.name) = stat_type
              /\ now - decisions[c.name] >= c.cooldown}}

\* 100 * HealingItem.success_rate
SuccessRate(item) ==
  LET total == item.success_count + item.failure_count
  IN  IF total > 0 THEN (100 * item.success_count) \div total ELSE 100

\* 2 * _calculate_item_score(item, urgency, current_pct)
CalculateItemScore(item, urgency, current_pct) ==
  LET threshold_diff == Abs(item.threshold - current_pct)
      base == SuccessRate(item) + (50 - item.priority * 10)
                + Max(0, 30 - threshold_diff)
      overheal_amount == Max(0, item.threshold - current_pct - 10)
  IN  (IF urgency = EMERGENCY THEN 4 * base
       ELSE IF urgency = HIGH THEN 3 * base
       ELSE 2 * base)
      - 2 * overheal_amount

\* the filter of select_optimal_healing_item
SuitableItem(item, urgency, current_pct) ==
  IF urgency = EMERGENCY THEN TRUE
  ELSE IF urgency = HIGH
    THEN item.priority <= 2 \/ current_pct <= item.threshold + 10
  ELSE IF urgency \in {MEDIUM, LOW}
    THEN current_pct <= item.threshold + overheal_protection
  ELSE FALSE

\* select_optimal_healing_item(urgency, stat_type, current_pct): the item, or
\* NoItem for None; scored_items.sort compares (score, item) tuples, and two
\* different items with the same score make it raise TypeError
SelectOptimalHealingItem(urgency, stat_type, current_pct, items, decisions, now) ==
  LET suitable == {i \in GetAvailableItems(items, decisions, stat_type, now) :
                     SuitableItem(i, urgency, current_pct)}
      tie == \E a, b \in suitable :
               /\ a # b
               /\ CalculateItemScore(a, urgency, current_pct)
                    = CalculateItemScore(b, urgency, current_pct)
  IN  IF suitable = {} THEN [raised |-> FALSE, item |-> NoItem]
      ELSE IF tie THEN [raised |-> TRUE, item |-> NoItem]
      ELSE [raised |-> FALSE,
            item |-> CHOOSE b \in suitable : \A o \in suitable :
                       CalculateItemScore(o, urgency, current_pct)
                         <= CalculateItemScore(b, urgency, current_pct)]

\* _should_heal_now(stat_type, urgency, current_time, in_combat); the delay is
\* multiplied by 0.7, 1.0 or 1.3
\* as _should_heal_now, with the delay the same for every urgency
ShouldHealNowUnscaled(stat_type, urgency, now, in_combat, attempts) ==
  LET base_delay == IF in_combat THEN combat_heal_delay ELSE normal_heal_delay
  IN  \/ urgency = EMERGENCY
      \/ now - attempts[stat_type] >= base_delay

ShouldHealNow(stat_type, urgency, now, in_combat, attempts) ==
  LET base_delay == IF in_combat THEN combat_heal_delay ELSE normal_heal_delay
      factor == CASE urgency = HIGH -> 7
                  [] urgency = LOW -> 13
                  [] OTHER -> 10
  IN  \/ urgency = EMERGENCY
      \/ 10 * (now - attempts[stat_type]) >= base_delay * factor

GetActionPriority(urgency) ==
  CASE urgency = EMERGENCY -> 100
    [] urgency = HIGH -> 80
    [] urgency = MEDIUM -> 60
    [] urgency = LOW -> 40
    [] OTHER -> 0

\* the part of _prioritize_healing_actions for one vital: the selection made,
\* when one is made
VitalSelection(stat_type, urgency, pct, now, in_combat, items, decisions, attempts) ==
  IF urgency # NONE /\ ShouldHealNow(stat_type, urgency, now, in_combat, attempts)
    THEN SelectOptimalHealingItem(urgency, stat_type, pct, items, decisions, now)
    ELSE [raised |-> FALSE, item |-> NoItem]

HealAction(stat_type, item, urgency) ==
  [type |-> stat_type, item |-> item, urgency |-> urgency,
   priority |-> GetActionPriority(urgency)]

\* _prioritize_healing_actions: the actions, highest priority first (the sort
\* is stable: hp stays before ds when the priorities are equal)
PrioritizeHealingActions(hp_urgency, ds_urgency, hp_pct, ds_pct, now, in_combat, items, decisions, attempts) ==
  LET h == VitalSelection("hp", hp_urgency, hp_pct, now, in_combat, items,
                          decisions, attempts)
      d == VitalSelection("ds", ds_urgency, ds_pct, now, in_combat, items,
                          decisions, attempts)
      ha == IF h.item # NoItem
              THEN <<HealAction("hp", h.item, hp_urgency)>> ELSE <<>>
      da == IF d.item # NoItem
              THEN <<HealAction("ds", d.item, ds_urgency)>> ELSE <<>>
  IN  IF h.raised \/ d.raised
        THEN [raised |-> TRUE, actions |-> <<>>]
        ELSE [raised |-> FALSE,
              actions |-> IF /\ ha # <<>>
                             /\ da # <<>>
                             /\ da[1].priority > ha[1].priority
                            THEN da \o ha
                            ELSE ha \o da]

\* the decision of HealingSystem.update: analyze_healing_need, then
\* _prioritize_healing_actions; an exception leaves the update with no action
HealingDecision(hp_pct, ds_pct, hp_trend, ds_trend, in_combat, now, items, decisions, attempts) ==
  LET predicted_hp == PredictHealth(hp_pct, hp_trend, in_combat)
      predicted_ds == PredictHealth(ds_pct, ds_trend, in_combat)
      hp_urgency == CalculateUrgency(hp_pct, predicted_hp, "hp", hp_trend, in_combat)
      ds_urgency == CalculateUrgency(ds_pct, predicted_ds, "ds", ds_trend, in_combat)
      p == PrioritizeHealingActions(hp_urgency, ds_urgency, hp_pct, ds_pct, now,
                                    in_combat, items, decisions, attempts)
  IN  [ran |-> TRUE, hp_pct |-> hp_pct, ds_pct |-> ds_pct,
       predicted_hp |-> predicted_hp, predicted_ds |-> predicted_ds,
       hp_trend |-> hp_trend, ds_trend |-> ds_trend, in_combat |-> in_combat,
       now |-> now, hp_urgency |-> hp_urgency, ds_urgency |-> ds_urgency,
       raised |-> p.raised, actions |-> p.actions]

\* no heal was ever attempted, no item ever used
NeverHealed == [v \in Vitals |-> 0]
NeverUsed == [n \in ItemNames |-> 0]
NoUses == [n \in ItemNames |-> [uses |-> 0, successes |-> 0]]

\* _update_healing_stats, the item's counters: one of the two is incremented
\* on the HealingItem object of the action
UpdateItemCounts(item, success) ==
  IF success THEN [item EXCEPT !.success_count = @ + 1]
             ELSE [item EXCEPT !.failure_count = @ + 1]

\* _update_healing_stats, the efficiency tracking of the item used
UpdateEfficiency(efficiency, name, success) ==
  [efficiency EXCEPT ![name] = [uses |-> @.uses + 1,
                                successes |-> @.successes + (IF success THEN 1 ELSE 0)]]

\* no _execute_healing_action call is running
NoDispatch == [type |-> "none"]
DispatchInit ==
  /\ healing_in_progress = FALSE
  /\ dispatching = [c \in EngineThreads |-> NoDispatch]

\* HealingSystem.__init__ and SmartHealingManager.__init__, with the
\* configured items; the timing state is one of `attempts` and `decisions`
HealingInit(configs, attempts, decisions) ==
  /\ healing_items \in configs
  /\ last_healing_attempt \in attempts
  /\ last_healing_decision \in decisions
  /\ healing_efficiency = NoUses
  /\ DispatchInit
  /\ heal = [ran |-> FALSE, hp_pct |-> 100, ds_pct |-> 100,
             predicted_hp |-> 100, predicted_ds |-> 100,
             hp_trend |-> 0, ds_trend |-> 0, in_combat |-> FALSE,
             now |-> 0, hp_urgency |-> NONE, ds_urgency |-> NONE,
             raised |-> FALSE, actions |-> <<>>]

\* the timing states a decision is followed from: each vital never healed or
\* healed at the earlier time; no item used, one item used, or every item
\* of a vital used at the earlier time
AttemptStates == [Vitals -> EarlierTimes]
DecisionStates ==
  {[n \in ItemNames |-> IF n \in used THEN 90 ELSE 0] :
     used \in {{}, {"Mega Recovery HD"}, {"Mega Energy HD"}, HpItemNames}}

\* the healing system as constructed, with the default items
HealingIdle == HealingInit({DefaultItems}, {NeverHealed}, {NeverUsed})

\* one decision of HealingSystem.update, on any vitals, slopes and time (one
\* decision is followed from each timing state)
HealingDecide ==
  /\ ~heal.ran
  /\ \E hp_pct \in HpPcts : \E ds_pct \in DsPcts :
     \E hp_trend \in HpTrends : \E ds_trend \in DsTrends :
     \E in_combat \in BOOLEAN : \E now \in HealTimes :
       heal' = HealingDecision(hp_pct, ds_pct, hp_trend, ds_trend, in_combat, now,
                               healing_items, last_healing_decision,
                               last_healing_attempt)
  /\ UNCHANGED <<healing_items, last_healing_attempt, last_healing_decision,
                 healing_efficiency, dispatchVars>>
  /\ UNCHANGED <<inputVars, targetVars, combatVars, engineVars, cycleVars>>

(***************************************************************************)
(* BotEngine: lifecycle and emergency stop                                 *)
(***************************************************************************)
\* at most this many emergency stops are followed to their return
MaxStops == 2

\* the thread that drives start, stop and emergency_stop
Gui == "gui"
\* a thread that uses the InputController while the engine runs
Background == "c1"

EngineIdle == [fn |-> "none", pc |-> "none"]

\* what one tick of the engine sees
EngineUniverse ==
  {e \in CombatUniverse :
     e.entity_type = "enemy_nameplate" /\ e.distance_from_center = 50}
EngineDetections == Detections(EngineUniverse)
EngineHp == {100}
\* the key the background thread holds
EngineKey == "W"

\* BotEngine.__init__
EngineInit ==
  /\ running = FALSE
  /\ paused = FALSE
  /\ initialized = FALSE
  /\ input_controller = FALSE
  /\ combat_system = FALSE
  /\ eng = EngineIdle
  /\ main_thread = "none"
  /\ old_loops = 0
  /\ estops = 0

\* c calls input_controller.stop_all_inputs()
InvokeStopAllInputs(c) ==
  /\ stack' = [stack EXCEPT ![c] = <<Frame("stop_all_inputs", NoKey)>>]
  /\ result' = [result EXCEPT ![c] = "pending"]

\* at most this many main loop threads of earlier starts are followed
MaxLoops == 2

\* start(): returns False when already running; initializes the systems when
\* needed (a failed initialization returns False with the engine as it was);
\* then sets the flags and starts the main loop thread.  self.main_thread is
\* overwritten whatever the thread it referred to is doing
EngineStart ==
  /\ eng = EngineIdle
  /\ ~running
  /\ initialized' = TRUE
  /\ input_controller' = TRUE
  /\ combat_system' = TRUE
  /\ running' = TRUE
  /\ paused' = FALSE
  /\ main_thread = "loop" => old_loops < MaxLoops
  /\ main_thread' = "loop"
  /\ old_loops' = IF main_thread = "loop" THEN old_loops + 1 ELSE old_loops
  /\ UNCHANGED <<eng, estops>>
  /\ UNCHANGED <<inputVars, targetVars, combatVars, healVars, cycleVars>>

\* stop(), up to its call of stop_all_inputs
EngineStopCall ==
  /\ eng = EngineIdle
  /\ running
  /\ running' = FALSE
  /\ IF input_controller
       THEN /\ InvokeStopAllInputs(Gui)
            /\ eng' = [fn |-> "stop", pc |-> "inputs"]
       ELSE /\ eng' = [fn |-> "stop", pc |-> "join"]
            /\ UNCHANGED <<stack, result>>
  /\ UNCHANGED <<held_keys, hold_threads, active_holds, lockOwner, tasks,
                 nextTid, keyDown>>
  /\ UNCHANGED <<paused, initialized, input_controller, combat_system,
                 main_thread, old_loops, estops>>
  /\ UNCHANGED <<targetVars, combatVars, healVars, cycleVars>>

\* emergency_stop(), up to its call of stop_all_inputs
EmergencyStopCall ==
  /\ eng = EngineIdle
  /\ estops < MaxStops
  /\ IF input_controller
       THEN /\ InvokeStopAllInputs(Gui)
            /\ eng' = [fn |-> "emergency_stop", pc |-> "inputs"]
       ELSE /\ eng' = [fn |-> "emergency_stop", pc |-> "flags"]
            /\ UNCHANGED <<stack, result>>
  /\ UNCHANGED <<held_keys, hold_threads, active_holds, lockOwner, tasks,
                 nextTid, keyDown>>
  /\ UNCHANGED <<running, paused, initialized, input_controller, combat_system,
                 main_thread, old_loops, estops>>
  /\ UNCHANGED <<targetVars, combatVars, healVars, cycleVars>>

\* the rest of stop() and emergency_stop(), each step taken once the call
\* made before it has returned
EngineProceed ==
  /\ eng # EngineIdle
  /\ ~InCall(Gui)
  /\ CASE eng.pc = "inputs" /\ eng.fn = "emergency_stop" ->
            /\ eng' = [eng EXCEPT !.pc = "flags"]
            /\ UNCHANGED <<running, paused, state, estops, stack, result>>
       [] eng.pc = "flags" ->
            \* running = False, paused = True, then combat_system.emergency_stop()
            /\ running' = FALSE
            /\ paused' = TRUE
            /\ IF combat_system
                 THEN /\ InvokeStopAllInputs(Gui)
                      /\ eng' = [eng EXCEPT !.pc = "combat"]
                 ELSE /\ eng' = [eng EXCEPT !.pc = "return"]
                      /\ UNCHANGED <<stack, result>>
            /\ UNCHANGED <<state, estops>>
       [] eng.pc = "combat" ->
            /\ state' = "idle"
            /\ eng' = [eng EXCEPT !.pc = "return"]
            /\ UNCHANGED <<running, paused, estops, stack, result>>
       [] eng.pc = "return" ->
            /\ eng' = EngineIdle
            /\ estops' = estops + 1
            /\ UNCHANGED <<running, paused, state, stack, result>>
       [] eng.pc = "inputs" /\ eng.fn = "stop" ->
            /\ eng' = [eng EXCEPT !.pc = "join"]
            /\ UNCHANGED <<running, paused, state, estops, stack, result>>
       [] eng.pc = "join" ->
            \* main_thread.join(timeout=5), the subsystems' stop, the cleanup
            /\ eng' = EngineIdle
            /\ UNCHANGED <<running, paused, state, estops, stack, result>>
  /\ UNCHANGED <<held_keys, hold_threads, active_holds, lockOwner, tasks,
                 nextTid, keyDown>>
  /\ UNCHANGED <<initialized, input_controller, combat_system, main_thread,
                 old_loops>>
  /\ UNCHANGED <<emergency_retreat, last_state_change, state_history, fsm,
                 attackVars>>
  /\ UNCHANGED <<targetVars, healVars, cycleVars>>

\* one pass of _main_loop while running and not paused: _execute_bot_cycle,
\* whose combat update is followed.  The passes are 50 ms apart: the ones
\* followed here all fall within the same second.
MainLoopTick ==
  /\ main_thread = "loop"
  /\ running
  /\ ~paused
  /\ combat_system
  /\ CombatSystemUpdate(EngineDetections, EngineHp, {<<clock, clock>>})
  /\ UNCHANGED <<inputVars, engineVars, healVars, cycleVars>>

\* a call of the InputController the engine has created: a hold of the
\* forward key started or stopped, or every hold stopped
BackgroundCall ==
  /\ input_controller
  /\ \/ CallStartHold(Background, EngineKey)
     \/ CallStopHold(Background, EngineKey)
     \/ CallStopHold(Background, NoKey)

\* `while self.running` found false
MainLoopExit ==
  /\ main_thread = "loop"
  /\ ~running
  /\ main_thread' = "ended"
  /\ UNCHANGED <<running, paused, initialized, input_controller, combat_system,
                 eng, old_loops, estops>>
  /\ UNCHANGED <<inputVars, targetVars, combatVars, healVars, cycleVars>>

(***************************************************************************)
(* BotEngine: one pass of the main loop, policy by policy                  *)
(***************************************************************************)
\* the passes of the main loop that are followed
MaxTicks == 2

\* the main loop thread
MainThread == "main"

\* the vitals a successful memory read can give
CycleHp == {10, 55, 100}
CycleDs == {10, 100}
\* time.time() at the passes followed, in periods of 50 ms
CycleTime == 100

\* MemoryStats(): the defaults, 100 % for both vitals
DefaultStats == [hp_pct |-> 100, ds_pct |-> 100, source |-> "default"]
\* last_valid_stats is None; a read that raised or failed the validation
NoStats == [hp_pct |-> 0, ds_pct |-> 0, source |-> "none"]
\* the stats of a successful read
ReadStats(hp, ds) == [hp_pct |-> hp, ds_pct |-> ds, source |-> "read"]
\* what a read of the game's memory can give
Readings == {ReadStats(hp, ds) : hp \in CycleHp, ds \in CycleDs} \cup {NoStats}

\* the policies, by the attribute of BotEngine that holds them
Policies == {"healing", "combat", "pathfinding", "timing"}

\* as PolicyAfter, with the first two policies exchanged
PolicyAfterCombatFirst(p) ==
  CASE p = "cycle" -> "combat"
    [] p = "combat" -> "healing"
    [] p = "healing" -> "pathfinding"
    [] p = "pathfinding" -> "timing"
    [] p = "timing" -> "end"

\* _execute_bot_cycle: the statement that follows the update of policy p
\* ("cycle": the in-game test)
PolicyAfter(p) ==
  CASE p = "cycle" -> "healing"
    [] p = "healing" -> "combat"
    [] p = "combat" -> "pathfinding"
    [] p = "pathfinding" -> "timing"
    [] p = "timing" -> "end"

\* as PolicyRaises, for an update with no handler of its own
PolicyRaisesUncaught(fails) == fails

\* whether an exception inside a policy's update leaves the update: each
\* update wraps its whole body in try / except Exception and logs
PolicyRaises(fails) == FALSE

\* MemoryReader.get_player_stats.  `reconnects`: a reconnection attempt is due
\* and succeeds; `reading`: what the read gives
GetPlayerStats(m, reconnects, reading) ==
  LET fallback == IF m.last_valid_stats # NoStats
                    THEN [m.last_valid_stats EXCEPT !.source = "last_valid"]
                    ELSE DefaultStats
  IN  IF ~m.connected
        THEN [mem |-> [m EXCEPT !.connected = reconnects], stats |-> fallback]
        ELSE IF reading = NoStats
          THEN [mem |-> m, stats |-> fallback]
          ELSE [mem |-> [m EXCEPT !.last_valid_stats = reading], stats |-> reading]

\* MemoryReader.get_current_state: the stats are fetched first, `connected`
\* is read after
GetCurrentState(m, reconnects, reading) ==
  LET r == GetPlayerStats(m, reconnects, reading)
  IN  [mem |-> r.mem, connected |-> r.mem.connected, stats |-> r.stats]

\* memory_data = {}: no memory reader asked
NoMemoryData(m) == [mem |-> m, connected |-> FALSE, stats |-> NoStats]

\* GameState
GameState(timestamp, in_game, player_stats) ==
  [timestamp |-> timestamp, in_game |-> in_game, player_stats |-> player_stats,
   in_combat |-> FALSE]

\* player_stats.get('hp_pct', 100), player_stats.get('ds_pct', 100)
StatOf(game_state, stat_type) ==
  IF game_state.player_stats = NoStats
    THEN 100
    ELSE IF stat_type = "hp" THEN game_state.player_stats.hp_pct
                             ELSE game_state.player_stats.ds_pct

\* the main loop thread outside a pass
CycleAtRest(ticks) ==
  [pc |-> "idle", ticks |-> ticks, game_state |-> GameState(0, FALSE, NoStats),
   invoked |-> <<>>, finished |-> <<>>, failed |-> {}, inputs |-> <<>>]

\* BotEngine.__init__, MemoryReader.__init__
CycleInit(memory_uses, connections) ==
  /\ use_memory \in memory_uses
  /\ mem \in {[connected |-> c, last_valid_stats |-> NoStats] : c \in connections}
  /\ current_game_state = GameState(0, FALSE, NoStats)
  /\ cyc = CycleAtRest(0)

CycleIdle == CycleInit({TRUE}, {FALSE})

\* policy p is called with the snapshot of the pass
Invoked(p) == Append(cyc.invoked, [policy |-> p, game_state |-> cyc.game_state])

\* the update of policy p returns; `fails`: an exception was raised inside
PolicyReturns(p, fails, keys) ==
  [cyc EXCEPT !.invoked = Invoked(p),
              !.finished = IF PolicyRaises(fails) THEN @ ELSE Append(@, p),
              !.failed = IF fails THEN @ \cup {p} ELSE @,
              !.inputs = @ \o keys,
              !.pc = IF PolicyRaises(fails) THEN "end" ELSE PolicyAfter(p)]

\* _main_loop: `while self.running`, `if not self.paused`, then
\* _update_game_state.  An exception (the detector's) leaves the old snapshot.
UpdateGameState ==
  /\ main_thread = "loop"
  /\ running
  /\ ~paused
  /\ cyc.pc = "idle"
  /\ cyc.ticks < MaxTicks
  /\ \E reconnects \in BOOLEAN : \E reading \in Readings : \E raised \in BOOLEAN :
       LET s == IF use_memory THEN GetCurrentState(mem, reconnects, reading)
                              ELSE NoMemoryData(mem)
       IN  /\ mem' = s.mem
           /\ current_game_state' =
                IF raised THEN current_game_state
                          ELSE GameState(cyc.ticks + 1, s.connected, s.stats)
  /\ cyc' = [cyc EXCEPT !.pc = "cycle"]
  /\ UNCHANGED use_memory
  /\ UNCHANGED <<inputVars, targetVars, combatVars, engineVars, healVars>>

\* _execute_bot_cycle, up to the in-game test
ExecuteBotCycle ==
  /\ cyc.pc = "cycle"
  /\ cyc' = [CycleAtRest(cyc.ticks) EXCEPT
               !.game_state = current_game_state,
               !.pc = IF ~current_game_state.in_game /\ use_memory
                        THEN "end" ELSE PolicyAfter("cycle")]
  /\ UNCHANGED <<use_memory, mem, current_game_state>>
  /\ UNCHANGED <<inputVars, targetVars, combatVars, engineVars, healVars>>

\* healing_system.update: nothing when a heal is in progress; otherwise the
\* decision, then _execute_healing_action for the first action listed, which
\* sets healing_in_progress, calls stop_all_inputs and, once that has
\* returned, taps the item's key, records the times and resets the flag
HealingUpdate ==
  /\ cyc.pc \in {"healing", "heal_inputs"}
  /\ IF cyc.pc = "healing" /\ healing_in_progress
       THEN /\ cyc' = PolicyReturns("healing", FALSE, <<>>)
            /\ UNCHANGED <<heal, stack, result, last_healing_attempt,
                           last_healing_decision, healing_efficiency, dispatchVars>>
       ELSE IF cyc.pc = "healing"
       THEN \E fails \in BOOLEAN :
              LET d == HealingDecision(StatOf(cyc.game_state, "hp"),
                                       StatOf(cyc.game_state, "ds"), 0, 0,
                                       cyc.game_state.in_combat, CycleTime,
                                       healing_items, last_healing_decision,
                                       last_healing_attempt)
              IN  /\ heal' = IF fails THEN heal ELSE d
                  /\ IF ~fails /\ d.actions # <<>>
                       THEN /\ InvokeStopAllInputs(MainThread)
                            /\ cyc' = [cyc EXCEPT !.invoked = Invoked("healing"),
                                                  !.pc = "heal_inputs"]
                            /\ healing_in_progress' = TRUE
                            /\ dispatching' =
                                 [dispatching EXCEPT ![MainThread] = d.actions[1]]
                       ELSE /\ cyc' = PolicyReturns("healing", fails \/ d.raised, <<>>)
                            /\ UNCHANGED <<stack, result, dispatchVars>>
                  /\ UNCHANGED <<last_healing_attempt, last_healing_decision,
                                 healing_efficiency>>
       ELSE /\ ~InCall(MainThread)
            /\ cyc' = PolicyReturns("healing", FALSE, <<heal.actions[1].item.key>>)
            /\ last_healing_attempt' =
                 [last_healing_attempt EXCEPT ![heal.actions[1].type] = CycleTime]
            /\ last_healing_decision' =
                 [last_healing_decision EXCEPT ![heal.actions[1].item.name] = CycleTime]
            /\ healing_efficiency' =
                 UpdateEfficiency(healing_efficiency, heal.actions[1].item.name, TRUE)
            /\ healing_in_progress' = FALSE
            /\ dispatching' = [dispatching EXCEPT ![MainThread] = NoDispatch]
            /\ UNCHANGED <<heal, stack, result>>
  /\ UNCHANGED <<held_keys, hold_threads, active_holds, lockOwner, tasks,
                 nextTid, keyDown>>
  /\ UNCHANGED healing_items
  /\ UNCHANGED <<use_memory, mem, current_game_state>>
  /\ UNCHANGED <<targetVars, combatVars, engineVars>>

\* combat_system.update
CombatPolicyUpdate ==
  /\ cyc.pc = "combat"
  /\ \E fails \in BOOLEAN :
       /\ IF fails
            THEN UNCHANGED <<targetVars, combatVars>>
            ELSE CombatSystemUpdate(EngineDetections, EngineHp, {<<clock, clock>>})
       /\ cyc' = PolicyReturns("combat", fails, <<>>)
  /\ UNCHANGED <<use_memory, mem, current_game_state>>
  /\ UNCHANGED <<inputVars, engineVars, healVars>>

\* pathfinding.update: when a move is due, a movement key is pressed, held
\* and released with the blocking hold
PathfindingUpdate ==
  /\ cyc.pc = "pathfinding"
  /\ \E fails \in BOOLEAN : \E moves \in BOOLEAN :
       cyc' = PolicyReturns("pathfinding", fails,
                            IF moves /\ ~fails THEN <<EngineKey>> ELSE <<>>)
  /\ UNCHANGED <<use_memory, mem, current_game_state>>
  /\ UNCHANGED <<inputVars, targetVars, combatVars, engineVars, healVars>>

\* timing_system.update: when a break is due, take_break calls
\* bot_engine.pause(), which sets paused and calls stop_all_inputs
TimingUpdate ==
  /\ cyc.pc \in {"timing", "break_inputs"}
  /\ IF cyc.pc = "timing"
       THEN \E fails \in BOOLEAN : \E break_due \in BOOLEAN :
              IF ~fails /\ break_due
                THEN /\ paused' = TRUE
                     /\ InvokeStopAllInputs(MainThread)
                     /\ cyc' = [cyc EXCEPT !.invoked = Invoked("timing"),
                                           !.pc = "break_inputs"]
                ELSE /\ cyc' = PolicyReturns("timing", fails, <<>>)
                     /\ UNCHANGED <<paused, stack, result>>
       ELSE /\ ~InCall(MainThread)
            /\ cyc' = PolicyReturns("timing", FALSE, <<>>)
            /\ UNCHANGED <<paused, stack, result>>
  /\ UNCHANGED <<held_keys, hold_threads, active_holds, lockOwner, tasks,
                 nextTid, keyDown>>
  /\ UNCHANGED <<running, initialized, input_controller, combat_system, eng,
                 main_thread, old_loops, estops>>
  /\ UNCHANGED <<use_memory, mem, current_game_state>>
  /\ UNCHANGED <<targetVars, combatVars, healVars>>

\* the end of the pass in _main_loop
CycleEnd ==
  /\ cyc.pc = "end"
  /\ cyc' = [cyc EXCEPT !.pc = "idle", !.ticks = @ + 1]
  /\ UNCHANGED <<use_memory, mem, current_game_state>>
  /\ UNCHANGED <<inputVars, targetVars, combatVars, engineVars, healVars>>

\* the main loop thread inside the InputController call a policy has made
CyclePolicyCall ==
  /\ cyc.pc \in {"heal_inputs", "break_inputs"}
  /\ Proceed(MainThread)

(***************************************************************************)
(* The specifications                                                      *)
(***************************************************************************)
\* the combat system updated tick after tick
CombatUpdate ==
  /\ UNCHANGED <<inputVars, engineVars, healVars, cycleVars>>
  /\ CombatSystemUpdate(CombatDetections, HpValues, CycleReads(clock))

NextCombat == CombatUpdate

InitCombat == InputInit /\ TargetInit({{}}) /\ CombatInit(BOOLEAN) /\ EngineInit /\ HealingIdle /\ CycleIdle

SpecCombat == InitCombat /\ [][NextCombat]_vars

\* the combat system while one entity comes closer: an enemy nameplate at one
\* place, detected alone, at any of its distances or not at all before
\* ApproachTime, and within the engage distance on every tick from then on
ApproachTime == 2
ApproachEntity(d) ==
  [entity_type |-> "enemy_nameplate", pos |-> <<100, 100>>,
   distance_from_center |-> d, confidence |-> 10]
ApproachDistances == {50, 150, 350}
FarDetections == {{}} \cup {{ApproachEntity(d)} : d \in ApproachDistances}
NearDetections ==
  {{ApproachEntity(d)} : d \in {n \in ApproachDistances : n < engage_distance}}

\* a tick before the entity has come close
SeekUpdate ==
  /\ UNCHANGED <<inputVars, engineVars, healVars, cycleVars>>
  /\ CombatSystemUpdate(FarDetections, HpValues,
                        {r \in CycleReads(clock) : r[2] < ApproachTime})

\* a tick from then on
ApproachUpdate ==
  /\ UNCHANGED <<inputVars, engineVars, healVars, cycleVars>>
  /\ CombatSystemUpdate(NearDetections, HpValues,
                        {r \in CycleReads(clock) : r[2] >= ApproachTime})

NextApproach == SeekUpdate \/ ApproachUpdate

SpecApproach == InitCombat /\ [][NextApproach]_vars

\* the main loop keeps ticking
FairSpecApproach ==
  /\ SpecApproach
  /\ WF_vars(SeekUpdate)
  /\ WF_vars(ApproachUpdate)

\* the healing system heal after heal: decisions and the attempts that
\* follow them, for MaxAttempts attempts
MaxAttempts == 2

\* the vitals of the decisions followed heal after heal
StatsHp == {10, 30, 55, 100}
StatsDs == {10, 100}

RECURSIVE UsesOf(_, _)
UsesOf(efficiency, names) ==
  IF names = {}
    THEN 0
    ELSE LET n == CHOOSE x \in names : TRUE
         IN  efficiency[n].uses + UsesOf(efficiency, names \ {n})

\* the heal attempts made so far
TotalUses == UsesOf(healing_efficiency, ItemNames)

\* the time of the tick that follows k attempts: ticks 3 s apart
StatsTime(k) == 100 + 60 * k

\* update has decided on a heal whose attempt has not been made
HealPending ==
  /\ heal.ran
  /\ heal.actions # <<>>
  /\ last_healing_decision[heal.actions[1].item.name] # heal.now

\* HealingSystem.update up to the dispatch, on drawn vitals
StatsDecide ==
  /\ ~HealPending
  /\ TotalUses < MaxAttempts
  /\ \E hp_pct \in StatsHp : \E ds_pct \in StatsDs :
       heal' = HealingDecision(hp_pct, ds_pct, 0, 0, FALSE, StatsTime(TotalUses),
                               healing_items, last_healing_decision,
                               last_healing_attempt)
  /\ UNCHANGED <<healing_items, last_healing_attempt, last_healing_decision,
                 healing_efficiency, dispatchVars>>
  /\ UNCHANGED <<inputVars, targetVars, combatVars, engineVars, cycleVars>>

\* _execute_healing_action from the return of its stop_all_inputs call on:
\* the item is used (success: what _use_healing_item returned), the
\* statistics are updated and the times recorded
StatsAttempt ==
  /\ HealPending
  /\ \E success \in BOOLEAN :
       /\ heal' = [heal EXCEPT !.actions[1].item = UpdateItemCounts(@, success)]
       /\ healing_efficiency' =
            UpdateEfficiency(healing_efficiency, heal.actions[1].item.name, success)
  /\ last_healing_attempt' =
       [last_healing_attempt EXCEPT ![heal.actions[1].type] = heal.now]
  /\ last_healing_decision' =
       [last_healing_decision EXCEPT ![heal.actions[1].item.name] = heal.now]
  /\ UNCHANGED <<healing_items, dispatchVars>>
  /\ UNCHANGED <<inputVars, targetVars, combatVars, engineVars, cycleVars>>

NextStats == StatsDecide \/ StatsAttempt

InitStats ==
  InputInit /\ TargetInit({{}}) /\ CombatInit({TRUE}) /\ EngineInit /\ HealingIdle /\ CycleIdle

SpecStats == InitStats /\ [][NextStats]_vars

\* an item added in config/healing_items.json: an hp item whose name does
\* not contain 'recovery'
CustomItemName == "Red Potion"
CustomItem(enabled) ==
  [name |-> CustomItemName, key |-> "7", enabled |-> enabled, threshold |-> 70,
   item_type |-> "hp", priority |-> 3, cooldown |-> item_cooldown]

\* the configurations followed with it: the defaults, or no other item for
\* ds enabled
ItemConfigs ==
  {ItemsEnabled(on) \cup {CustomItem(e)} :
     on \in {ItemNames, HpItemNames, {"Mega Recovery HD", "Mega Energy HD"}},
     e \in BOOLEAN}

\* the times the items were last used: never, or some at the earlier time
ItemDecisionStates ==
  {[n \in ItemNames \cup {CustomItemName} |-> IF n \in used THEN 90 ELSE 0] :
     used \in {{}, {"Mega Recovery HD"}, {CustomItemName}, DsItemNames}}

\* the healing decision on configured items that include a custom one
NextItems == HealingDecide

InitItems ==
  /\ InputInit /\ TargetInit({{}}) /\ CombatInit({TRUE}) /\ EngineInit
  /\ HealingInit(ItemConfigs, {NeverHealed}, ItemDecisionStates)
  /\ CycleIdle

SpecItems == InitItems /\ [][NextItems]_vars

\* the engaging state on its own: the ticks of _handle_engaging with a
\* target, from AttackStart (the clock of a running bot is far past 0) to
\* MaxAttackTime half seconds later
AttackStart == 100
MaxAttackTime == 35
\* the half seconds from one tick followed to the next
AttackSteps == {3, 5}
AttackReads(from) ==
  {from + d : d \in {e \in AttackSteps : from + e <= AttackStart + MaxAttackTime}}
\* the rolls of get_available_combo followed, and the player hp it scores on
ComboRolls == {{}, {"basic_assault"}, ComboKeys}
AttackHp == {100, 30}
\* CombatConfig.combo_enabled
combo_enabled == TRUE

\* what a tick leaves in atk when it plays no combo
NoComboPlayed(now) ==
  [ran |-> TRUE, gated |-> FALSE, combo |-> "none", missed |-> FALSE,
   after |-> FALSE, reported |-> "none", rate_before |-> 0, attack |-> "none",
   pressed |-> FALSE, prev_press |-> atk.last_press, last_press |-> atk.last_press,
   since_before |-> atk.since, since |-> atk.since]

\* _execute_attack_sequence(current_time): TAB, the attack key, a skill at
\* times, the pickup key; a statement that raises ends the sequence there,
\* before the counters are written.  `before` is atk as the tick has left it
\* so far
ExecuteAttackSequence(now, trouble, before) ==
  LET raised == trouble.kind = "raises"
      pressed == before.pressed \/ ~raised \/ trouble.at = 2
  IN  /\ attack_sequence_count' =
           IF raised THEN attack_sequence_count ELSE attack_sequence_count + 1
      /\ last_attack_time' = IF raised THEN last_attack_time ELSE now
      /\ atk' = [before EXCEPT !.attack = IF raised THEN "raised" ELSE "completed",
                               !.pressed = pressed,
                               !.last_press = IF pressed THEN now ELSE @,
                               !.since = IF raised THEN @ ELSE @ + 1]

\* execute_combo(combo) at time now (its reading of the clock is taken to be
\* that of the tick), followed by what _handle_engaging does with its result
ExecuteCombo(now, combo, attack_key, trouble) ==
  LET run == ExecuteComboSequence(combo.sequence, attack_key, trouble)
      failed == (run.played \ run.sent)
                  \cup (IF run.result THEN {} ELSE {trouble.at})
      rate == IF combo_success_rate[combo.name] = 0
                THEN combo.success_rate ELSE combo_success_rate[combo.name]
      played == [NoComboPlayed(now) EXCEPT
                   !.combo = combo.name,
                   !.rate_before = rate,
                   !.since = IF run.result THEN 0 ELSE @,
                   !.missed = failed # {},
                   !.after = \E i \in failed : \E j \in run.played : j > i,
                   !.reported = IF run.result THEN "success" ELSE "failure",
                   !.pressed = run.sent # {},
                   !.last_press = IF run.sent # {} THEN now ELSE @]
  IN  /\ last_combo_time' = now
      /\ combo_cooldowns' = [combo_cooldowns EXCEPT ![combo.name] = now]
      /\ combo_success_rate' =
           [combo_success_rate EXCEPT ![combo.name] = UpdateSuccessRate(rate, run.result)]
      /\ IF run.result
           THEN /\ attack_sequence_count' = 0
                /\ last_attack_time' = now
                /\ atk' = played
           ELSE \E at \in Troubles(2) : ExecuteAttackSequence(now, at, played)

\* the normal attack sequence of a tick that plays no combo
NoComboAttack(now) ==
  /\ \E at \in Troubles(2) : ExecuteAttackSequence(now, at, NoComboPlayed(now))
  /\ UNCHANGED <<last_combo_time, combo_cooldowns, combo_success_rate>>

\* _handle_engaging(current_time, game_state, target) with a target, at the
\* time of a tick, on drawn rolls, a drawn attack key and drawn troubles
HandleEngaging ==
  /\ state = "engaging"
  /\ UNCHANGED <<emergency_retreat, state, last_state_change, state_history, fsm>>
  /\ UNCHANGED <<avoid_digimon, current_target, sel, last_detected>>
  /\ UNCHANGED <<inputVars, engineVars, healVars, cycleVars>>
  /\ \E now \in AttackReads(clock) :
       /\ clock' = now
       /\ IF now - last_attack_time < attack_cooldown
            THEN /\ atk' = [NoComboPlayed(now) EXCEPT !.gated = TRUE]
                 /\ UNCHANGED <<last_attack_time, attack_sequence_count,
                                last_combo_time, combo_cooldowns, combo_success_rate>>
            ELSE \E roll \in BOOLEAN :
                   IF ShouldCombo(combo_enabled, roll, attack_sequence_count)
                     THEN \E rolls \in ComboRolls : \E hp \in AttackHp :
                            LET combo == GetAvailableCombo(now, rolls, hp, last_combo_time,
                                                           combo_cooldowns)
                            IN  IF combo = NoCombo
                                  THEN NoComboAttack(now)
                                  ELSE \E attack_key \in AttackKeys :
                                       \E ct \in Troubles(Len(combo.sequence)) :
                                         ExecuteCombo(now, combo, attack_key, ct)
                     ELSE NoComboAttack(now)

\* the combat system engaging a target at time `start`, after `count`
\* normal attack sequences, the last at time `last`
EngagingAt(start, count, last, rates) ==
  /\ clock = start
  /\ avoid_digimon = {}
  /\ current_target \in Candidates(EngineUniverse, {}, start)
  /\ sel = [called |-> FALSE, prev |-> None, top |-> 0, raised |-> FALSE,
            best |-> None]
  /\ last_detected = 0
  /\ emergency_retreat = TRUE
  /\ state = "engaging"
  /\ last_state_change = start
  /\ state_history = NotFollowed
  /\ fsm = [ran |-> FALSE, from |-> "engaging", rules |-> {}, changes |-> 0]
  /\ AttackAt(count, last, rates)

NextAttack == HandleEngaging

\* from the first tick in the engaging state
InitAttack ==
  /\ InputInit /\ EngineInit /\ HealingIdle /\ CycleIdle
  /\ EngagingAt(AttackStart, 0, 0, {NoRates})

SpecAttack == InitAttack /\ [][NextAttack]_vars

\* the success rates a run can have reached: no entry yet, at and next to
\* the floor, at and next to the cap
RateValues == {0, 10, 12, 99, 100}
RateStates ==
  {[n \in ComboNames |-> IF n \in ComboTitles THEN r[n] ELSE 0] :
     r \in [ComboTitles -> RateValues]}
\* the time a run with such rates is joined at, RateTime half seconds
\* before the ticks followed end
RateTime == 10

\* the last ticks of a run that has executed combos before: three normal
\* attack sequences have completed since the last of them
InitRate ==
  /\ InputInit /\ EngineInit /\ HealingIdle /\ CycleIdle
  /\ EngagingAt(AttackStart + MaxAttackTime - RateTime, combo_min_attacks + 1,
                AttackStart + MaxAttackTime - RateTime - attack_cooldown, RateStates)

SpecRate == InitRate /\ [][NextAttack]_vars

\* the state machine of the combat system on its own, the transition log
\* followed for MaxChanges state changes
MaxChanges == 4

\* the seconds the state machine on its own is followed for
MaxFsmTime == 3

\* player hp on both sides of the retreat threshold and of its buffer
FsmHp == {15, 16, 25, 26}

\* distances on both sides of the engage and the disengage distance
FsmDistances == {50, 100, 200, 350}

\* the targets update_targets can hand to the state machine
FsmTargets ==
  {None} \cup
  {[entity_type |-> "enemy_nameplate", x |-> 100, y |-> 100, distance |-> d,
    confidence |-> 10, priority |-> GetTargetPriority("enemy_nameplate"),
    last_seen |-> 0] : d \in FsmDistances}

\* the clock at the next tick of the state machine: the same second or the
\* one after
FsmReads(from) == {t \in 0..MaxFsmTime : t = from \/ t = from + 1}

\* a transition log of n entries: targets that came and went at time 0
SeekingHistory(n) ==
  [i \in 1..n |->
     IF i % 2 = 1 THEN [old |-> "idle", new |-> "seeking", time |-> 0]
                  ELSE [old |-> "seeking", new |-> "idle", time |-> 0]]

\* a new combat system, or one whose log is one entry short of its limit
FsmInit ==
  /\ emergency_retreat \in BOOLEAN
  /\ state_history \in {<<>>, SeekingHistory(history_limit - 1)}
  /\ state = IF state_history = <<>>
               THEN "idle" ELSE state_history[Len(state_history)].new
  /\ last_state_change = 0
  /\ fsm = [ran |-> FALSE, from |-> state, rules |-> {}, changes |-> 0]
  /\ AttackInit

\* CombatSystem.update at a time, on a player hp and with a target that
\* update_targets returned: the state machine part
FsmUpdate ==
  /\ fsm.changes < MaxChanges
  /\ UNCHANGED <<avoid_digimon, current_target, sel, last_detected>>
  /\ UNCHANGED <<inputVars, engineVars, healVars, cycleVars>>
  /\ \E now \in FsmReads(clock) : \E hp \in FsmHp : \E tgt \in FsmTargets :
       /\ UpdateCombatState(now, hp, tgt)
       /\ clock' = now

\* CombatSystem.emergency_stop, from the return of its stop_all_inputs call
\* on: the state is set to idle, outside the combat lock
CombatEmergencyStop ==
  /\ state' = "idle"
  /\ fsm' = [fsm EXCEPT !.ran = FALSE]
  /\ UNCHANGED <<emergency_retreat, last_state_change, state_history, attackVars>>
  /\ UNCHANGED <<inputVars, targetVars, engineVars, healVars, cycleVars>>

NextFsm == FsmUpdate \/ CombatEmergencyStop

InitFsm == InputInit /\ TargetInit({{}}) /\ FsmInit /\ EngineInit /\ HealingIdle /\ CycleIdle

SpecFsm == InitFsm /\ [][NextFsm]_vars

\* the target manager called detection after detection
NextTarget == UpdateTargetsCall

InitTarget ==
  InputInit /\ TargetInit(AvoidConfigs) /\ CombatInit({TRUE}) /\ EngineInit /\ HealingIdle /\ CycleIdle

SpecTarget == InitTarget /\ [][NextTarget]_vars

\* a target manager whose current target is any target it can have chosen
\* under its avoid list
FilterInit ==
  /\ clock = 0
  /\ avoid_digimon \in AvoidConfigs
  /\ current_target \in {None} \cup Candidates(Universe, avoid_digimon, 0)
  /\ sel = [called |-> FALSE, prev |-> None, top |-> 0, raised |-> FALSE,
            best |-> None]
  /\ last_detected = 0

\* one update_targets call on any detection, the detection kept with what
\* the call computed
FilterCall ==
  /\ ~sel.called
  /\ \E now \in ClockReads(clock) : \E ents \in UniverseDetections :
       /\ current_target' = UpdateTargets(current_target, ents, avoid_digimon, now)
       /\ sel' = Selection(current_target, ents, avoid_digimon, now)
                   @@ [detected |-> ents]
       /\ last_detected' = LastDetected(current_target', ents, avoid_digimon, now,
                                        last_detected)
       /\ clock' = now
  /\ UNCHANGED avoid_digimon
  /\ UNCHANGED <<inputVars, combatVars, engineVars, healVars, cycleVars>>

NextFilter == FilterCall

InitFilter ==
  InputInit /\ FilterInit /\ CombatInit({TRUE}) /\ EngineInit /\ HealingIdle /\ CycleIdle

SpecFilter == InitFilter /\ [][NextFilter]_vars

\* the healing decision made on drawn vitals, from drawn timing states
NextHealing == HealingDecide

InitHealing ==
  /\ InputInit /\ TargetInit({{}}) /\ CombatInit({TRUE}) /\ EngineInit
  /\ HealingInit(HealConfigs, AttemptStates, DecisionStates)
  /\ CycleIdle

SpecHealing == InitHealing /\ [][NextHealing]_vars

\* the started engine's main loop, pass after pass
NextCycle ==
  \/ EngineStart
  \/ UpdateGameState
  \/ ExecuteBotCycle
  \/ HealingUpdate
  \/ CombatPolicyUpdate
  \/ PathfindingUpdate
  \/ TimingUpdate
  \/ CycleEnd
  \/ CyclePolicyCall

InitCycle ==
  /\ InputInit /\ TargetInit({{}}) /\ CombatInit({TRUE}) /\ EngineInit
  /\ HealingIdle
  /\ CycleInit(BOOLEAN, BOOLEAN)

SpecCycle == InitCycle /\ [][NextCycle]_vars

\* the main loop thread is scheduled whenever it can take a step
FairSpecCycle ==
  /\ SpecCycle
  /\ WF_vars(UpdateGameState)
  /\ WF_vars(ExecuteBotCycle)
  /\ WF_vars(HealingUpdate)
  /\ WF_vars(CombatPolicyUpdate)
  /\ WF_vars(PathfindingUpdate)
  /\ WF_vars(TimingUpdate)
  /\ WF_vars(CycleEnd)
  /\ WF_vars(CyclePolicyCall)

\* force_heal(stat_type), called on the thread of the window: no lock is
\* taken and healing_in_progress is not looked at.  The item is selected for
\* urgency HIGH at 50 %; with no item, or when the selection raises, the call
\* returns False; otherwise _execute_healing_action runs on this thread: the
\* flag is set, stop_all_inputs is called and, once that has returned, the
\* item's key is tapped, the times are recorded and the flag is reset
ForceHeal ==
  /\ initialized
  /\ IF dispatching[Gui] = NoDispatch
       THEN \E stat_type \in Vitals :
              LET s == SelectOptimalHealingItem(HIGH, stat_type, 50, healing_items,
                                                last_healing_decision, CycleTime)
              IN  IF s.raised \/ s.item = NoItem
                    THEN UNCHANGED <<stack, result, last_healing_attempt,
                                     last_healing_decision, healing_efficiency,
                                     dispatchVars>>
                    ELSE /\ healing_in_progress' = TRUE
                         /\ dispatching' =
                              [dispatching EXCEPT ![Gui] =
                                 [type |-> stat_type, item |-> s.item,
                                  urgency |-> HIGH, priority |-> 100]]
                         /\ InvokeStopAllInputs(Gui)
                         /\ UNCHANGED <<last_healing_attempt, last_healing_decision,
                                        healing_efficiency>>
       ELSE /\ ~InCall(Gui)
            /\ last_healing_attempt' =
                 [last_healing_attempt EXCEPT ![dispatching[Gui].type] = CycleTime]
            /\ last_healing_decision' =
                 [last_healing_decision EXCEPT ![dispatching[Gui].item.name] = CycleTime]
            /\ healing_efficiency' =
                 UpdateEfficiency(healing_efficiency, dispatching[Gui].item.name, TRUE)
            /\ healing_in_progress' = FALSE
            /\ dispatching' = [dispatching EXCEPT ![Gui] = NoDispatch]
            /\ UNCHANGED <<stack, result>>
  /\ UNCHANGED <<held_keys, hold_threads, active_holds, lockOwner, tasks,
                 nextTid, keyDown>>
  /\ UNCHANGED <<healing_items, heal>>
  /\ UNCHANGED <<targetVars, combatVars, engineVars, cycleVars>>

\* the thread of the window inside the InputController call of its dispatch
ForceHealCall ==
  /\ dispatching[Gui] # NoDispatch
  /\ Proceed(Gui)

\* the main loop of the started engine, and force_heal called beside it
NextDispatch ==
  \/ NextCycle
  \/ ForceHeal
  \/ ForceHealCall

SpecDispatch == InitCycle /\ [][NextDispatch]_vars

\* the engine under its lifecycle controls, with a thread using the
\* InputController in the background
NextEngine ==
  \/ EngineStart
  \/ EngineStopCall
  \/ EmergencyStopCall
  \/ EngineProceed
  \/ MainLoopTick
  \/ MainLoopExit
  \/ BackgroundCall
  \/ \E c \in {Gui, Background} : Proceed(c)
  \/ \E t \in TaskIds : TaskStep(t)

InitEngine == InputInit /\ TargetInit({{}}) /\ CombatInit({TRUE}) /\ EngineInit /\ HealingIdle /\ CycleIdle

SpecEngine == InitEngine /\ [][NextEngine]_vars

\* every thread that can take a step is eventually scheduled
FairSpecEngine ==
  /\ SpecEngine
  /\ WF_vars(EngineProceed)
  /\ \A c \in {Gui, Background} : WF_vars(Proceed(c))
  /\ \A t \in TaskIds : WF_vars(TaskStep(t))

\* the lifecycle calls of the engine on their own, each followed from the
\* return of its stop_all_inputs call on, with no key held

\* stop(), up to the join: running = False
LifeStop ==
  /\ eng = EngineIdle
  /\ running
  /\ running' = FALSE
  /\ eng' = [fn |-> "stop", pc |-> "join"]
  /\ UNCHANGED <<paused, initialized, input_controller, combat_system,
                 main_thread, old_loops, estops>>
  /\ UNCHANGED <<inputVars, targetVars, combatVars, healVars, cycleVars>>

\* emergency_stop(): running = False, paused = True, the combat system set to
\* idle; the main loop thread is not joined
LifeEmergencyStop ==
  /\ eng = EngineIdle
  /\ estops < MaxStops
  /\ running' = FALSE
  /\ paused' = TRUE
  /\ state' = IF combat_system THEN "idle" ELSE state
  /\ estops' = estops + 1
  /\ UNCHANGED <<initialized, input_controller, combat_system, eng,
                 main_thread, old_loops>>
  /\ UNCHANGED <<emergency_retreat, last_state_change, state_history, fsm,
                 attackVars>>
  /\ UNCHANGED <<inputVars, targetVars, healVars, cycleVars>>

\* pause() and resume()
LifePause ==
  /\ eng = EngineIdle
  /\ running
  /\ ~paused
  /\ paused' = TRUE
  /\ UNCHANGED <<running, initialized, input_controller, combat_system, eng,
                 main_thread, old_loops, estops>>
  /\ UNCHANGED <<inputVars, targetVars, combatVars, healVars, cycleVars>>

LifeResume ==
  /\ eng = EngineIdle
  /\ running
  /\ paused
  /\ paused' = FALSE
  /\ UNCHANGED <<running, initialized, input_controller, combat_system, eng,
                 main_thread, old_loops, estops>>
  /\ UNCHANGED <<inputVars, targetVars, combatVars, healVars, cycleVars>>

\* one pass of the _main_loop of a thread started by an earlier start()
OldLoopTick ==
  /\ old_loops > 0
  /\ running
  /\ ~paused
  /\ combat_system
  /\ CombatSystemUpdate(EngineDetections, EngineHp, {<<clock, clock>>})
  /\ UNCHANGED <<inputVars, engineVars, healVars, cycleVars>>

\* such a thread finds `while self.running` false
OldLoopExit ==
  /\ old_loops > 0
  /\ ~running
  /\ old_loops' = old_loops - 1
  /\ UNCHANGED <<running, paused, initialized, input_controller, combat_system,
                 eng, main_thread, estops>>
  /\ UNCHANGED <<inputVars, targetVars, combatVars, healVars, cycleVars>>

NextLifecycle ==
  \/ EngineStart
  \/ LifeStop
  \/ LifeEmergencyStop
  \/ LifePause
  \/ LifeResume
  \/ EngineProceed
  \/ MainLoopTick
  \/ MainLoopExit
  \/ OldLoopTick
  \/ OldLoopExit

SpecLifecycle == InitEngine /\ [][NextLifecycle]_vars

(***************************************************************************)
(* The InputController driven by API callers                               *)
(***************************************************************************)
NextInput ==
  \/ \E c \in ApiCallers : ApiCall(c)
  \/ \E c \in ApiCallers : Proceed(c)
  \/ \E t \in TaskIds : TaskStep(t)

InitInput == InputInit /\ TargetInit({{}}) /\ CombatInit({TRUE}) /\ EngineInit /\ HealingIdle /\ CycleIdle

SpecInput == InitInput /\ [][NextInput]_vars

\* every thread that can take a step is eventually scheduled
FairSpecInput ==
  /\ SpecInput
  /\ \A c \in ApiCallers : WF_vars(Proceed(c))
  /\ \A t \in TaskIds : WF_vars(TaskStep(t))

\* the same, and a hold task that waits for the lock gets it if the lock is
\* free again and again (no task is starved by a run of short calls)
FairSpecHold ==
  /\ FairSpecInput
  /\ \A t \in TaskIds : SF_vars(TaskAcquire(t))

(***************************************************************************)
(* Claims about the InputController                                        *)
(***************************************************************************)
\* c is in start_hold(k), holds the lock and is about to find k already held
StartHoldFoundHeld(c, k) ==
  /\ Depth(c) = 1
  /\ Top(c).fn = "start_hold"
  /\ Top(c).key = k
  /\ Top(c).pc = "body"
  /\ k \in held_keys

\* c is in stop_hold(None), holds the lock, and some key is held
StopAllHoldsEntered(c) ==
  /\ Depth(c) = 1
  /\ Top(c).fn = "stop_hold"
  /\ Top(c).key = NoKey
  /\ Top(c).pc = "body"
  /\ held_keys # {}

\* c is in stop_all_inputs and holds the lock
StopAllInputsEntered(c) ==
  /\ Depth(c) = 1
  /\ Top(c).fn = "stop_all_inputs"
  /\ Top(c).pc = "body"

\* C1: for every key at most one hold task is alive (the held-key registry is
\* a set and the task table a dictionary, so each has one entry per key at most)
C1_OneLiveHoldTaskPerKey ==
  \A k \in Keys :
    /\ Cardinality(LiveTasksOf(k)) <= 1
    /\ hold_threads[k] \in 0..MaxTasks

\* C2: a start_hold(k) that finds k held gets to register its new hold, and
\* by then the task of the earlier hold has sent key-up and has ended
C2_ReleaseBeforeReacquire ==
  \A c \in ApiCallers : \A k \in Keys : \A t \in TaskIds :
    (StartHoldFoundHeld(c, k) /\ hold_threads[k] = t)
      ~> (/\ Depth(c) = 1
          /\ Top(c).fn = "start_hold"
          /\ Top(c).pc = "return"
          /\ k \in held_keys
          /\ tasks[t].pc = "dead")

\* C3: a start_hold(k) that finds k held returns True to its caller
C3_ReacquireReturnsSuccess ==
  \A c \in ApiCallers : \A k \in Keys :
    StartHoldFoundHeld(c, k) ~> (~InCall(c) /\ result[c] = "True")

\* C4: stop_hold(None) called with keys held returns, with no key left held
C4_StopHoldNoneReleasesAll ==
  \A c \in ApiCallers :
    StopAllHoldsEntered(c)
      ~> (~InCall(c) /\ result[c] = "True" /\ held_keys = {})

\* C5: stop_all_inputs returns, leaving the held-key set and the task table
\* empty and active_holds at 0
C5_StopAllInputsTerminates ==
  \A c \in ApiCallers :
    StopAllInputsEntered(c)
      ~> (/\ ~InCall(c)
          /\ held_keys = {}
          /\ \A k \in Keys : hold_threads[k] = 0
          /\ active_holds = 0)

(***************************************************************************)
(* Claims about BotEngine.emergency_stop                                   *)
(***************************************************************************)
\* the controlling thread is inside BotEngine.emergency_stop
InEmergencyStop == eng.fn = "emergency_stop"

\* C6: an emergency stop that has been called halts the keys and idles the
\* combat state: it returns, and then no key is held, no key is down and the
\* combat state is Idle
C6_EmergencyStopHaltsKeysAndIdles ==
  InEmergencyStop ~>
    /\ eng = EngineIdle
    /\ held_keys = {}
    /\ \A k \in Keys : ~keyDown[k]
    /\ state = "idle"

\* C7: every call of emergency_stop, a repeated one as much as the first,
\* comes to the same end state: no key held, combat state Idle, the engine
\* not running and paused
C7_EmergencyStopEndState ==
  InEmergencyStop ~>
    /\ ~InEmergencyStop
    /\ ~running
    /\ paused
    /\ held_keys = {}
    /\ state = "idle"

(***************************************************************************)
(* Claims about the combat state machine                                   *)
(***************************************************************************)
\* the targets _update_combat_state can be handed
TargetInputs == {None} \cup {MakeTarget(e, 0) : e \in CombatUniverse}

\* C8: in every combat state reached, for every target (absent, near, in
\* between, far), every hp and every time, exactly one rule of the state
\* update applies, and the update that ran last had exactly one rule to take
C8_ExactlyOneRuleApplies ==
  /\ fsm.ran => Cardinality(fsm.rules) = 1
  /\ \A tgt \in TargetInputs : \A hp \in HpValues : \A now \in 0..MaxTime :
       Cardinality(ApplicableRules(state, tgt, hp, emergency_retreat, now,
                                   last_state_change)) = 1

\* the last branch of the engaging state has been taken
C8_Witness ==
  /\ fsm.ran
  /\ fsm.from = "engaging"
  /\ fsm.rules = {"engaging_to_retreating"}
  /\ state = "retreating"

(***************************************************************************)
(* Claims about the target selector                                        *)
(***************************************************************************)
\* the last update_targets call found a current target and a best candidate
HadTargetAndCandidate == sel.called /\ sel.prev # None /\ sel.best # None

\* the current target of the last call was inside its lock window
WasInLockWindow == clock - sel.prev.last_seen < target_lock_duration

\* the last update_targets call replaced the current target by a candidate
Switched ==
  /\ sel.called
  /\ sel.prev # None
  /\ current_target # None
  /\ current_target # sel.prev

\* C9: a current target is replaced only (a) inside its lock window by a
\* candidate whose priority is at least 2 lower, or (b) after the lock window
\* by a candidate whose score is at least 20% above the current target's
C9_SwitchOnlyByPriorityOrScore ==
  Switched =>
    \/ /\ WasInLockWindow
       /\ current_target.priority <= sel.prev.priority - 2
    \/ /\ ~WasInLockWindow
       /\ 5 * CalculateTargetScore(current_target, sel.prev)
            >= 6 * CalculateTargetScore(sel.prev, sel.prev)

\* a switch after the lock window, won by the score alone
C9_Witness ==
  /\ Switched
  /\ ~WasInLockWindow
  /\ current_target.priority = sel.prev.priority

\* C10 as stated: inside the lock window a best candidate whose priority is 1
\* lower than the current target's becomes the current target
C10_OneLowerSwitchesInLock ==
  (/\ HadTargetAndCandidate
   /\ WasInLockWindow
   /\ sel.best.priority = sel.prev.priority - 1)
  => current_target = sel.best

\* C10, amended: inside the lock window a best candidate whose priority is
\* only 1 lower than the current target's does not cause a switch: the current
\* target is kept
C10_OneLowerKeepsTargetInLock ==
  (/\ HadTargetAndCandidate
   /\ WasInLockWindow
   /\ sel.best.priority = sel.prev.priority - 1)
  => current_target = sel.prev

\* a target locked 1 s ago, a candidate of priority 1 lower, the target kept
C10_Witness ==
  /\ HadTargetAndCandidate
  /\ clock - sel.prev.last_seen = 1
  /\ sel.best.priority = sel.prev.priority - 1
  /\ current_target = sel.prev

\* the last update_targets call had a current target and no candidate
NoCandidateForTarget ==
  /\ sel.called
  /\ sel.prev # None
  /\ sel.best = None
  /\ ~sel.raised

\* C11: on a call with no surviving candidate the current target is kept when
\* it was among the candidates of a detection no more than 2 seconds ago, and
\* cleared when it has been absent for more than 2 seconds
C11_LostOnlyAfterTimeoutUnseen ==
  NoCandidateForTarget =>
    IF clock - last_detected <= target_lost_timeout
      THEN current_target = sel.prev
      ELSE current_target = None

\* the last update_targets call had no current target and some candidate
CandidateForNoTarget ==
  /\ sel.called
  /\ sel.prev = None
  /\ sel.top > 0

\* C12: a call made with no current target and at least one surviving
\* candidate leaves the highest-scoring candidate as the current target
C12_BestPromotedAtOnce ==
  CandidateForNoTarget =>
    /\ current_target # None
    /\ CalculateTargetScore(current_target, None) = sel.top

(***************************************************************************)
(* Claims about the healing decision                                       *)
(***************************************************************************)
\* the inputs and the result of the last decision, for one vital
PctOf(stat_type) == IF stat_type = "hp" THEN heal.hp_pct ELSE heal.ds_pct
PredictedOf(stat_type) ==
  IF stat_type = "hp" THEN heal.predicted_hp ELSE heal.predicted_ds
TrendOf(stat_type) == IF stat_type = "hp" THEN heal.hp_trend ELSE heal.ds_trend
UrgencyOf(stat_type) ==
  IF stat_type = "hp" THEN heal.hp_urgency ELSE heal.ds_urgency

\* C13: with the vital, the forecast, the slope and the combat flag of the
\* decision kept, a lower current percentage never has a lower urgency and a
\* higher one never a higher urgency
C13_UrgencyMonotone ==
  heal.ran =>
    \A stat_type \in Vitals : \A v \in AllPcts :
      LET u == CalculateUrgency(v, PredictedOf(stat_type), stat_type,
                                TrendOf(stat_type), heal.in_combat)
      IN  /\ v < PctOf(stat_type) => u >= UrgencyOf(stat_type)
          /\ v > PctOf(stat_type) => u <= UrgencyOf(stat_type)

\* a decision in the decline branch: hp above the comfort threshold, falling
\* fast in combat, classified LOW
C13_Witness ==
  /\ heal.ran
  /\ heal.in_combat
  /\ heal.hp_trend < -5
  /\ heal.hp_pct > comfort_threshold
  /\ heal.hp_urgency = LOW

\* C14: a current percentage at or below the vital's emergency threshold is
\* EMERGENCY whatever the forecast, the slope and the combat flag; hp 10 and
\* ds 80 with no decline give EMERGENCY for hp and NONE or LOW for ds
C14_EmergencyAtOrBelowThreshold ==
  heal.ran =>
    /\ \A stat_type \in Vitals :
         PctOf(stat_type) <= EmergencyThreshold(stat_type) =>
           /\ UrgencyOf(stat_type) = EMERGENCY
           /\ \A p \in AllPcts : \A t \in HpTrends : \A c \in BOOLEAN :
                CalculateUrgency(PctOf(stat_type), p, stat_type, t, c) = EMERGENCY
    /\ (heal.hp_pct = 10 /\ heal.ds_pct = 80 /\ heal.hp_trend = 0 /\ heal.ds_trend = 0)
         => heal.hp_urgency = EMERGENCY /\ heal.ds_urgency \in {NONE, LOW}

\* the decision on hp 10, ds 80 with flat slopes
C14_Witness ==
  /\ heal.ran
  /\ heal.hp_pct = 10
  /\ heal.ds_pct = 80
  /\ heal.hp_trend = 0
  /\ heal.ds_trend = 0
  /\ heal.hp_urgency = EMERGENCY
  /\ heal.ds_urgency = NONE

\* an enabled item is configured for the vital
HasEnabledItem(stat_type) ==
  \E i \in healing_items : i.enabled /\ ItemStatType(i.name) = stat_type

\* the decision listed a heal for the vital
HealSelected(stat_type) ==
  \E n \in 1..Len(heal.actions) : heal.actions[n].type = stat_type

C16_NoOverhealBelowEmergency ==
  heal.ran =>
    \A n \in 1..Len(heal.actions) :
      heal.actions[n].urgency # EMERGENCY =>
        PctOf(heal.actions[n].type)
          <= heal.actions[n].item.threshold + overheal_protection

(***************************************************************************)
(* Claims about one pass of the main loop                                  *)
(***************************************************************************)
\* the healing policy has dispatched the first action it listed
HealDispatched ==
  /\ cyc.pc = "heal_inputs"
  /\ heal.ran
  /\ heal.actions # <<>>

\* the key inputs of the pass are the key of the first action listed, the
\* one of the highest urgency, and nothing else
HealKeyPressed ==
  /\ heal.ran
  /\ heal.actions # <<>>
  /\ \A n \in 1..Len(heal.actions) :
       heal.actions[1].urgency >= heal.actions[n].urgency
  /\ "healing" \in {cyc.finished[n] : n \in 1..Len(cyc.finished)}
  /\ cyc.inputs # <<>>
  /\ cyc.inputs[1] = heal.actions[1].item.key
  /\ \A n \in 2..Len(cyc.inputs) :
       cyc.inputs[n] \notin {i.key : i \in healing_items}

PolicyChain == <<"healing", "combat", "pathfinding", "timing">>

IsPrefix(s, t) ==
  /\ Len(s) <= Len(t)
  /\ \A n \in 1..Len(s) : s[n] = t[n]

\* the policies called in the pass so far, in the order of the calls
InvokedPolicies == [n \in 1..Len(cyc.invoked) |-> cyc.invoked[n].policy]

\* C18: the policies of a pass are called in the order healing, combat,
\* pathfinding, timing, each after the one before it has returned, and each
\* with the snapshot read at the start of the pass, which stays the engine's
\* current snapshot until the pass is over
C18_ChainInOrderOnOneSnapshot ==
  /\ IsPrefix(InvokedPolicies, PolicyChain)
  /\ IsPrefix(cyc.finished, PolicyChain)
  /\ Len(cyc.finished) <= Len(cyc.invoked)
  /\ Len(cyc.invoked) <= Len(cyc.finished) + 1
  /\ \A n \in 1..Len(cyc.invoked) :
       /\ cyc.invoked[n].game_state = cyc.game_state
       /\ cyc.pc \notin {"idle", "cycle"} =>
            cyc.invoked[n].game_state = current_game_state

\* a pass that has run the whole chain
C18_Witness ==
  /\ cyc.pc = "end"
  /\ cyc.finished = PolicyChain
  /\ cyc.game_state.in_game

SkipsDisconnectedPass ==
  (cyc.pc # "idle" /\ cyc.pc # "cycle" /\ ~cyc.game_state.in_game) =>
    /\ cyc.invoked = <<>>
    /\ cyc.inputs = <<>>

\* no policy is called with the default vitals of a read that gave nothing
NeverActsOnDefaultVitals ==
  \A n \in 1..Len(cyc.invoked) :
    cyc.invoked[n].game_state.player_stats.source # "default"

\* C20: with memory use enabled, a pass whose snapshot reports the vitals
\* source as disconnected runs no policy and issues no key input, and no
\* policy ever acts on the default 100 % vitals
C20_NoActionOnDefaultVitals ==
  use_memory => SkipsDisconnectedPass /\ NeverActsOnDefaultVitals

(***************************************************************************)
(* Claims about the registry of holds                                      *)
(***************************************************************************)
\* hold task t runs the locked part of its finally block
Finalises(t) ==
  /\ tasks[t].pc = "cleanup"
  /\ tasks'[t].pc = "dead"

\* C21: a hold stays registered until a stop call removes it: the
\* finalisation of a hold task that is not the one registered for its key
\* leaves the key in the held-key set and leaves the key's registry entry
C21_HoldKeptUntilStopped ==
  [][\A t \in TaskIds :
       (Finalises(t) /\ hold_threads[tasks[t].key] # t) =>
         /\ hold_threads'[tasks[t].key] = hold_threads[tasks[t].key]
         /\ tasks[t].key \in held_keys => tasks[t].key \in held_keys']_vars

(***************************************************************************)
(* Claims about the combat state machine and its transition log            *)
(***************************************************************************)
\* the state changes the state machine is said to make
ListedChanges ==
  {<<"idle", "seeking">>, <<"seeking", "idle">>, <<"seeking", "engaging">>,
   <<"engaging", "cooldown">>, <<"engaging", "seeking">>,
   <<"engaging", "retreating">>, <<"retreating", "cooldown">>,
   <<"cooldown", "idle">>}

\* the states an update can leave the state machine in, from state s
NextStates(s, tgt, hp, now) ==
  {RuleTo(r) : r \in ApplicableRules(s, tgt, hp, emergency_retreat, now,
                                      last_state_change)}

\* the last thing done to the state machine was an update that found it in
\* state s
UpdatedFrom(s) == fsm.ran /\ fsm.from = s

\* C22: a state change made by the per-tick update is one of the eight listed
\* changes, and every entry of the transition log is one of them
C22_OnlyListedChanges ==
  /\ fsm.ran /\ state # fsm.from => <<fsm.from, state>> \in ListedChanges
  /\ \A i \in 1..Len(state_history) :
       <<state_history[i].old, state_history[i].new>> \in ListedChanges

C22_Witness ==
  /\ fsm.ran
  /\ Len(state_history) = history_limit
  /\ state_history[history_limit].old = "retreating"
  /\ state_history[history_limit].new = "cooldown"

\* C23: from engaging, an update with no target ends in cooldown, with a
\* target farther than the disengage distance in seeking, with a target
\* within it, emergency retreat enabled and hp at most the retreat threshold
\* in retreating, and leaves the state engaging otherwise
C23_FromEngaging ==
  /\ state = "engaging" =>
       \A tgt \in FsmTargets : \A hp \in FsmHp : \A now \in 0..MaxFsmTime :
         NextStates("engaging", tgt, hp, now) =
           {IF tgt = None THEN "cooldown"
            ELSE IF tgt.distance > 200 THEN "seeking"
            ELSE IF emergency_retreat /\ hp <= 15 THEN "retreating"
            ELSE "engaging"}
  /\ UpdatedFrom("engaging") => \E r \in fsm.rules : state = RuleTo(r)

C23_Witness ==
  /\ UpdatedFrom("engaging")
  /\ fsm.rules = {"engaging_stay"}
  /\ emergency_retreat
  /\ state = "engaging"

\* C24: from retreating, an update leaves the state retreating when hp is at
\* most the retreat threshold plus 10 and ends in cooldown when hp is above,
\* with a target or without
C24_FromRetreating ==
  /\ state = "retreating" =>
       \A tgt \in FsmTargets : \A hp \in FsmHp : \A now \in 0..MaxFsmTime :
         NextStates("retreating", tgt, hp, now) =
           {IF hp <= 15 + 10 THEN "retreating" ELSE "cooldown"}
  /\ UpdatedFrom("retreating") => \E r \in fsm.rules : state = RuleTo(r)

C24_Witness ==
  /\ UpdatedFrom("retreating")
  /\ fsm.rules = {"retreating_to_cooldown"}
  /\ state = "cooldown"

\* the log entry of the change that entered the state the last update found
EnteredAt == state_history[Len(state_history) - 1]

\* C25: cooldown is left only for idle, and only by an update more than 2
\* seconds after the update that entered cooldown
C25_OutOfCooldown ==
  /\ state = "cooldown" =>
       /\ state_history[Len(state_history)].new = "cooldown"
       /\ state_history[Len(state_history)].time = last_state_change
       /\ \A tgt \in FsmTargets : \A hp \in FsmHp : \A now \in 0..MaxFsmTime :
            NextStates("cooldown", tgt, hp, now) =
              {IF now - last_state_change > 2 THEN "idle" ELSE "cooldown"}
  /\ UpdatedFrom("cooldown") =>
       /\ state \in {"cooldown", "idle"}
       /\ state = "idle" =>
            /\ EnteredAt.new = "cooldown"
            /\ clock - EnteredAt.time > 2

C25_Witness ==
  /\ UpdatedFrom("cooldown")
  /\ state = "idle"
  /\ clock = EnteredAt.time + 3

\* the log after one more entry, cut to its newest history_limit entries
WithEntry(history, entry) ==
  LET longer == Append(history, entry)
  IN  IF Len(longer) > history_limit
        THEN SubSeq(longer, Len(longer) - history_limit + 1, Len(longer))
        ELSE longer

OnAvoidList(t) ==
  \E a \in avoid_digimon : IsSubstring(Lower(a), Lower(t.entity_type))

\* target t is one the filter is said to drop
Excluded(t) ==
  \/ OnAvoidList(t)
  \/ t.distance > 400
  \/ t.confidence < 8

\* C27: no entity whose kind contains an avoid-list entry (case apart),
\* whose distance is above 400 or whose confidence is below 0.4 is made the
\* current target by an update, whatever the current target was
C27_FilteredNeverTargeted ==
  sel.called =>
    /\ current_target \notin {None, sel.prev} => ~Excluded(current_target)
    /\ \A e \in sel.detected :
         Excluded(MakeTarget(e, clock)) => current_target # MakeTarget(e, clock)

C27_Witness ==
  /\ sel.called
  /\ current_target \notin {None, sel.prev}
  /\ \E e \in sel.detected :
       /\ OnAvoidList(MakeTarget(e, clock))
       /\ CalculateTargetScore(MakeTarget(e, clock), sel.prev)
            > CalculateTargetScore(current_target, sel.prev)

(***************************************************************************)
(* Claims about the timing of heals                                        *)
(***************************************************************************)
\* the heal the update dispatches: the first of the actions it decided on
Dispatched == heal.actions[1]

\* the time since the last heal attempt for the vital of the dispatched heal
SinceLastAttempt == heal.now - last_healing_attempt[Dispatched.type]

HealCompleted ==
  /\ heal.ran
  /\ heal.actions # <<>>
  /\ "healing" \in {cyc.finished[n] : n \in 1..Len(cyc.finished)}
  /\ held_keys = {}
  /\ cyc.inputs = <<Dispatched.item.key>>
  /\ last_healing_attempt[Dispatched.type] = CycleTime
  /\ last_healing_decision[Dispatched.item.name] = CycleTime

\* C29: a dispatched heal releases every held key, then presses the item
\* key, and completes: the healing update returns with the last attempt of
\* the vital and the last use of the item set to the tick time
C29_DispatchCompletes == HealDispatched ~> HealCompleted

ConfiguredItem == CHOOSE c \in healing_items : c.name = Dispatched.item.name

\* the time since the item of the dispatched heal was last dispatched
SinceLastUse == heal.now - last_healing_decision[Dispatched.item.name]

\* C31: the heal dispatched uses an item that is enabled and whose vital kind
\* is that of the vital healed, and below EMERGENCY an item dispatched before
\* was dispatched at least its cooldown earlier
C31_ItemOfTheVitalOffCooldown ==
  heal.ran /\ heal.actions # <<>> =>
    /\ ConfiguredItem.enabled
    /\ ConfiguredItem.item_type = Dispatched.type
    /\ (Dispatched.urgency < EMERGENCY /\ last_healing_decision[Dispatched.item.name] > 0
          => SinceLastUse >= ConfiguredItem.cooldown)

\* C32: when a step of a combo fails to dispatch its input, no later step
\* of the combo is played, execute_combo returns False, and the tick goes on
\* to a normal attack sequence
C32_FailedStepAbortsCombo ==
  atk.ran /\ atk.combo # "none" /\ atk.missed =>
    /\ ~atk.after
    /\ atk.reported = "failure"
    /\ atk.attack # "none"

\* C33: the adaptive success rate of every combo stays between 0.1 and 1.0,
\* and an execution leaves it 0.02 higher, at most 1.0, when it succeeds and
\* 0.05 lower, at least 0.1, when it fails
C33_RateWithinBounds ==
  /\ \A n \in ComboNames :
       combo_success_rate[n] = 0
         \/ (rate_min <= combo_success_rate[n] /\ combo_success_rate[n] <= rate_max)
  /\ atk.ran /\ atk.combo # "none" =>
       combo_success_rate[atk.combo] =
         IF atk.reported = "success"
           THEN Min(rate_max, atk.rate_before + rate_up)
           ELSE Max(rate_min, atk.rate_before - rate_down)

C33_Witness ==
  /\ atk.ran
  /\ atk.combo # "none"
  /\ atk.reported = "failure"
  /\ atk.rate_before = rate_min + 2
  /\ combo_success_rate[atk.combo] = rate_min

\* C34: a combo is played only on a tick before which more than 2 normal
\* attack sequences have completed since the last successful combo (or since
\* the start), and after a successful combo that count is 0
C34_ThreeAttacksBeforeCombo ==
  atk.ran /\ atk.combo # "none" =>
    /\ atk.since_before > combo_min_attacks
    /\ atk.reported = "success" =>
         /\ atk.since = 0
         /\ attack_sequence_count = 0

C34_Witness ==
  /\ atk.ran
  /\ atk.combo # "none"
  /\ atk.reported = "success"
  /\ atk.since_before = combo_min_attacks + 1
  /\ last_combo_time > AttackStart + 2 * combo_global_cooldown

RemovedByStopHold(c, t) ==
  /\ InCall(c)
  /\ Top(c).fn = "stop_hold"
  /\ Top(c).pc = "join"
  /\ hold_threads[Top(c).key] = t
  /\ TaskAlive(t)

\* start_hold was called for the key of task t after t was spawned
StartHoldAgain(t) ==
  \/ \E u \in TaskIds : u > t /\ tasks[u].pc # "unborn" /\ tasks[u].key = tasks[t].key
  \/ \E c \in ApiCallers : \E i \in 1..Len(stack[c]) :
       stack[c][i].fn = "start_hold" /\ stack[c][i].key = tasks[t].key

\* C36: once stop_hold has removed a key from the held set, and unless
\* start_hold is called for the key again, the hold task of the key ends
\* (its key-up is sent on the way, in the finally block of hold_loop)
C36_RemovedHoldTaskEnds ==
  \A c \in ApiCallers : \A t \in TaskIds :
    RemovedByStopHold(c, t) ~> (tasks[t].pc = "dead" \/ StartHoldAgain(t))

LoopThreads == old_loops + (IF main_thread = "loop" THEN 1 ELSE 0)

DispatchesRunning == {c \in EngineThreads : dispatching[c] # NoDispatch}

\* C39: at most one heal dispatch is in progress at a time, and
\* healing_in_progress is true exactly while one is
C39_OneDispatchAtATime ==
  /\ Cardinality(DispatchesRunning) <= 1
  /\ healing_in_progress <=> DispatchesRunning # {}

====
